---- MODULE Spec2Model ----
(***************************************************************************)
(* Verification model of the grants-mcp repository.                        *)
(*                                                                         *)
(* Part 1: the in-memory cache (InMemoryCache, spec section 4.4): a        *)
(*         bounded key->value store with a time-to-live and least-         *)
(*         recently-used eviction, its statistics, and its callers.        *)
(* Part 2: generate_cache_key (spec sections 4.4 and 4.5).                 *)
(* Part 3: the opportunity discovery tool handler (spec section 4.7) with  *)
(*         format_error_response of tools/utils/error_handling.py.         *)
(* Part 4: retry_with_backoff of tools/utils/error_handling.py.            *)
(* Part 5: the adaptive testing system (testing/): the orchestrator loop   *)
(*         and pipeline, the risk analyzer, the compliance checker, the    *)
(*         audit trail manager and change detection.                       *)
(* Part 6: the analytics store (AsyncSQLiteManager), the process entry     *)
(*         point and the server's run variants, get_opportunities,         *)
(*         sanitize_error_message and the deployment validator.            *)
(* Part 7: more of the adaptive testing system: the generation and         *)
(*         execution phases, event ids, the sessions and scans of          *)
(*         successive monitoring cycles, the configured compliance         *)
(*         checker and the quality trends; the analytics cache's           *)
(*         connections.                                                    *)
(***************************************************************************)
EXTENDS Integers, Sequences, FiniteSets, TLC

(***************************************************************************)
(* Bounds of the model.                                                    *)
(***************************************************************************)
NumKeys == 2
NumVals == 2
MaxCapacity == 1
MaxTtl == 1
MaxTime == 2
MaxGets == 2
LruKeys == 3
LruCapacity == 2
NumThreads == 2
OpsPerThread == 1
MaxReads == 2
KeyOps == 2
KeyNames == 2
KeyVals == 2
NumTasks == 2
NumQueries == 2
NumPayloads == 2
MaxRetries == 3
MaxCycles == 2
MaxFindings == 3
MaxBusinessFindings == 1
MaxViolations == 2
NumCategories == 2
NumSessions == 2
MaxStart == 2
NumVariants == 2
MaxLimit == 2
MaxLogs == 2
NumEventTypes == 2
MaxEvents == 3
NumOpps == 1
NumScores == 2
NumSearchSessions == 1
MaxClock == 1
MaxStoreOps == 3
MaxRecords == 2
NumRecordIds == 2
MaxText == 4
NumFiles == 2
NumHashes == 2
MaxChanges == 2
MaxMicros == 1
MaxWindow == 2
MaxAge == 2

VARIABLES
    \* ---- InMemoryCache ----
    ttl,        \* constructor argument: seconds an entry stays valid
    max_size,   \* constructor argument: capacity
    now,        \* the clock read by the cache (time.time())
    store,      \* the entries, in recency order, least recently used first
    hits,       \* cumulative hit count
    misses,     \* cumulative miss count
    \* ---- the caller's record of what it did (test-harness bookkeeping) ----
    lastOp,     \* the most recent cache call and what it returned
    h_gets,     \* number of get calls made
    h_hits,     \* number of get calls that returned a value
    h_touch,    \* keys by most recent set / successful get, oldest first
    h_ins,      \* the sets made so far while only distinct keys were set
    h_pure,     \* TRUE while the run consists of sets of distinct keys only
    \* ---- worker threads sharing one cache ----
    t_pc,       \* per thread: number of its calls that have returned
    t_ret,      \* per thread: what its last get returned
    t_reads,    \* the reader thread: gets made, the last one, whether one was absent
    \* ---- generate_cache_key ----
    k_calls,    \* the two calls whose keys are compared
    k_keys,     \* the keys generated for them (<<>> before the calls)
    \* ---- opportunity discovery tool ----
    tk_pc,      \* per invocation: "idle", "awaiting" (the API call) or "done"
    tk_query,   \* per invocation: the query it was called with
    tk_cached,  \* per invocation: what the cache held for its key at the call
    tk_err,     \* per invocation: the error its API call raised, if any
    tk_out,     \* per invocation: what it returned
    api_calls,  \* number of calls made to api_client.search_opportunities
    search_history, \* context["search_history"]
    \* ---- retry_with_backoff ----
    r_max,      \* max_retries
    r_attempt,  \* the loop variable attempt
    r_pc,       \* "call", "sleep", "returned" or "raised"
    r_hist,     \* outcome of each invocation of the wrapped function
    r_slept,    \* delay of each sleep made
    r_result,   \* what the decorated call returned or raised
    \* ---- AdaptiveTestingOrchestrator.start_continuous_monitoring ----
    o_pc,       \* where the monitoring loop is
    o_interval, \* config["monitoring_interval"]
    o_phase,    \* session.phase of the current session ("none": no session)
    o_trace,    \* the phases the current session has been put in, in order
    o_err,      \* where the last error of this cycle was raised ("none")
    o_swallowed,\* a test request failed in the generation phase this cycle
    o_logged,   \* an error event was written to the audit trail this cycle
    o_sleep,    \* length of the sleep that ended the cycle
    o_cycles,   \* monitoring cycles finished
    \* ---- RiskAnalyzer.analyze_change and ComplianceChecker.check_file ----
    a_pc,           \* "risk", "compliance" or "done": the analyzers run in turn
    a_readable,     \* whether file_path.read_text succeeds
    a_security,     \* what SecurityPatternDetector.scan_content returns
    a_business,     \* what BusinessImpactAnalyzer.analyze_business_impact returns
    a_complexity_findings, \* what ComplexityAnalyzer.analyze_python_complexity returns
    a_complexity,   \* change_event.complexity_score
    a_weights,      \* the analyzer's weights, in tenths
    a_enabled,      \* ComplianceChecker.enabled_categories
    a_found,        \* what the category checkers return for the content
    a_risk,         \* the RiskAssessment returned
    a_report,       \* the ComplianceReport returned
    \* ---- AuditTrailManager ----
    d_sessions, \* table test_sessions: session_id -> row, or NoRow
    d_events,   \* number of rows of table audit_events
    d_last,     \* the session passed to the latest log_session call
    d_pc,       \* "start", "logged" or "got": the latest call made
    d_limit,    \* the limit of the latest get_session_history call
    d_history,  \* what the latest get_session_history call returned
    \* ---- AuditTrailManager: construction and log_event ----
    e_pc, \* "new" before the constructor has returned, then "constructed"
    e_tables, \* how many of the three databases _initialize_databases has set up
    e_calls, \* number of log_event calls made (the next event id)
    e_events, \* table audit_events: the events stored, oldest first
    e_backup, \* audit_log.jsonl: the event ids appended, oldest first
    e_ret, \* the latest operation and how it ended
    \* ---- AsyncSQLiteManager (analytics store) ----
    s_db, \* the committed content of the database
    s_work, \* the content as the connection sees it: s_db plus uncommitted changes
    s_now, \* the clock, in days
    s_ops, \* number of write operations made
    s_ret, \* the latest write operation and how it ended
    s_latest, \* per (opportunity id, version): the score of the latest successful store
    \* ---- process entry point and GrantsAnalysisServer run variants ----
    g_entry, \* what was called: "main", "run_sync" or "run"
    g_pc, \* position: "start", "settings", "construct", "running", "cleanup", "done"
    g_env, \* the environment: which key variables are set, and CACHE_TTL
    g_server, \* whether GrantsAnalysisServer has been constructed
    g_reason, \* why the process or server stopped
    g_close, \* what became of api_client.close()
    g_out, \* what run_sync or run gave its caller: a return or the exception raised
    g_exit, \* the process exit code, -1 while there is none
    \* ---- GrantsAPIResponse.get_opportunities ----
    p_data, \* the data list of the response
    p_pc, \* "call" before get_opportunities has run, "done" after
    p_out, \* what get_opportunities gave: the list returned, or raised
    \* ---- sanitize_error_message ----
    x_text, \* the message, as a sequence of symbols
    x_pc, \* "call" before sanitize_error_message has run, "done" after
    x_out, \* the sanitized message
    \* ---- deployment validator ----
    v_next, \* index of the next validator main will run
    v_outcome, \* per validator run so far: what it met
    v_printed, \* the validators that printed their 'validation passed' line
    v_all_errors, \* all_errors: the names of the checks, one per error listed
    v_all_passed, \* all_passed
    v_exit, \* the exit code, -1 while main is running
    \* ---- change detection (_detect_code_changes) ----
    f_disk, \* the source files on disk: file -> content hash, None when absent
    f_monitored, \* monitored_files, in dict order: pairs of path and last-known hash
    f_pc, \* "scanned" right after a scan, "changed" after a change on disk
    f_result, \* what the scan just made gave (events or raised), with monitored_files as it was before
    \* ---- one session through the generation, execution and optimization phases ----
    w_changes, \* session.code_changes with their risk scores
    w_pc, \* the phase at work, "done" or "raised"
    w_calls, \* the generate_tests calls made: request and outcome
    w_generated, \* session.generated_tests
    w_results, \* session.execution_results
    w_run, \* how the test runner ended
    \* ---- log_event calls and the ids they assign ----
    i_clock, \* datetime.now(), in microseconds
    i_calls, \* the log_event calls: type, id and outcome
    i_tasks, \* per task: the call it is in, 0 for none
    i_table, \* the event ids in audit_events
    \* ---- the monitoring cycle's sessions ----
    c_pc, \* the step of _monitoring_cycle, or "sleep"
    c_current, \* current_session: its id, or None
    c_history, \* session_history: session ids
    c_table, \* the session ids in test_sessions
    c_errors, \* the session ids of the logged error events
    c_cycles, \* the number of the cycle
    c_outcome, \* how the latest cycle ended
    \* ---- the scans of successive cycles ----
    n_disk, \* per source file: the hash of its content, or None
    n_monitored, \* monitored_files: its items in dict order
    n_pending, \* the files changed since the latest scan
    n_pc, \* "sleep" between cycles, "session" in one
    n_scan, \* the latest scan: how it ended, its events
    n_session, \* code_changes of the session the scan started
    \* ---- the analytics cache and its connections ----
    u_cache, \* analytics_cache as committed: per key absent, fresh or expired
    u_lock, \* the thread whose connection has an open transaction, or None
    u_deleted, \* the keys that transaction has deleted
    u_ret, \* the latest call and its result
    \* ---- the compliance checker built from the configuration ----
    m_config, \* ComplianceConfig.enabled_categories: names
    m_found, \* what the pattern checkers find in the file
    m_pc, \* "new", "constructed" or "checked"
    m_enabled, \* ComplianceChecker.enabled_categories
    m_report, \* the report of check_file
    \* ---- quality trends ----
    q_today, \* the day of the month of the call
    q_days, \* the days argument
    q_ages, \* the recorded metrics, by age in days
    q_ret \* the latest call and its result

cacheVars == <<ttl, max_size, now, store, hits, misses>>
harnessVars == <<lastOp, h_gets, h_hits, h_touch, h_ins, h_pure>>
threadVars == <<t_pc, t_ret, t_reads>>
keyVars == <<k_calls, k_keys>>
toolVars == <<tk_pc, tk_query, tk_cached, tk_err, tk_out, api_calls,
              search_history>>
retryVars == <<r_max, r_attempt, r_pc, r_hist, r_slept, r_result>>
orchVars == <<o_pc, o_interval, o_phase, o_trace, o_err, o_swallowed,
              o_logged, o_sleep, o_cycles>>
analyzeVars == <<a_pc, a_readable, a_security, a_business, a_complexity_findings,
                 a_complexity, a_weights, a_enabled, a_found, a_risk, a_report>>
auditVars == <<d_sessions, d_events, d_last, d_pc, d_limit, d_history>>
eventVars == <<e_pc, e_tables, e_calls, e_events, e_backup, e_ret>>
storeVars == <<s_db, s_work, s_now, s_ops, s_ret, s_latest>>
serverVars == <<g_entry, g_pc, g_env, g_server, g_reason, g_close, g_out, g_exit>>
parseVars == <<p_data, p_pc, p_out>>
sanitizeVars == <<x_text, x_pc, x_out>>
validatorVars == <<v_next, v_outcome, v_printed, v_all_errors, v_all_passed, v_exit>>
detectVars == <<f_disk, f_monitored, f_pc, f_result>>
phaseVars == <<w_changes, w_pc, w_calls, w_generated, w_results, w_run>>
idVars == <<i_clock, i_calls, i_tasks, i_table>>
cycleVars == <<c_pc, c_current, c_history, c_table, c_errors, c_cycles, c_outcome>>
scanVars == <<n_disk, n_monitored, n_pending, n_pc, n_scan, n_session>>
lockVars == <<u_cache, u_lock, u_deleted, u_ret>>
configVars == <<m_config, m_found, m_pc, m_enabled, m_report>>
trendVars == <<q_today, q_days, q_ages, q_ret>>
moreVars ==
    <<eventVars, storeVars, serverVars, parseVars, sanitizeVars,
      validatorVars, detectVars, phaseVars, idVars, cycleVars, scanVars,
      lockVars, configVars, trendVars>>
testingVars == <<orchVars, analyzeVars, auditVars, moreVars>>
nonCacheVars == <<threadVars, keyVars, toolVars, retryVars, testingVars>>
vars == <<cacheVars, harnessVars, threadVars, keyVars, toolVars, retryVars,
          testingVars>>

\* Range of CodeChangeEvent.complexity_score as the orchestrator computes it.
base_complexity == 1
max_complexity == 10

\* The orchestrator's sleeps between monitoring cycles, in seconds.
default_monitoring_interval == 30
production_monitoring_interval == 300
error_sleep == 60

\* _calculate_test_priority: the base and the business criticality points.
base_priority == 5
business_points == 2

\* The day windows of get_quality_trends: its default and the export's.
default_days == 30
export_days == 90

\* Defaults of retry_with_backoff, in seconds.
base_delay == 1
max_delay == 60

None == 0
Keys == 1..NumKeys
Vals == 1..NumVals

(***************************************************************************)
(* Helpers on the recency-ordered entry list.                              *)
(***************************************************************************)
StoredKeys(s) == {s[i].key : i \in DOMAIN s}

Without(s, k) == SelectSeq(s, LAMBDA e : e.key # k)

EntryOf(s, k) == s[CHOOSE i \in DOMAIN s : s[i].key = k]

\* An entry is expired once ttl seconds have elapsed since it was created;
\* with ttl = 0 it is expired at once.
is_expired_late(e) == now - e.created > ttl

is_expired(e) == now - e.created >= ttl

\* The lazy sweep of expired entries done during writes.
cleanup_expired(s) == SelectSeq(s, LAMBDA e : ~is_expired(e))

\* What get(k) returns in the current state.
lookup(k) ==
    IF k \notin StoredKeys(store) THEN None
    ELSE IF is_expired(EntryOf(store, k)) THEN None
    ELSE EntryOf(store, k).val

(***************************************************************************)
(* InMemoryCache operations (each runs under the cache's lock, so each is  *)
(* one atomic step).                                                       *)
(***************************************************************************)
\* set(key, value): insert or overwrite; at capacity evict the least
\* recently used entry first; with max_size = 0 store nothing.  sweep says
\* whether this write also runs the lazy sweep of expired entries.
set_evict_newest(k, v, sweep) ==
    /\ store' =
         IF max_size = 0 THEN store
         ELSE LET kept == IF k \in StoredKeys(store) THEN Without(store, k)
                          ELSE IF Len(store) >= max_size
                               THEN SubSeq(store, 1, Len(store) - 1)
                               ELSE store
                  put == Append(kept, [key |-> k, val |-> v,
                                       created |-> now, accessed |-> now])
              IN IF sweep THEN cleanup_expired(put) ELSE put
    /\ UNCHANGED <<ttl, max_size, now, hits, misses>>

set_no_evict(k, v, sweep) ==
    /\ store' =
         IF max_size = 0 THEN store
         ELSE LET kept == IF k \in StoredKeys(store) THEN Without(store, k)
                          ELSE store
                  put == Append(kept, [key |-> k, val |-> v,
                                       created |-> now, accessed |-> now])
              IN IF sweep THEN cleanup_expired(put) ELSE put
    /\ UNCHANGED <<ttl, max_size, now, hits, misses>>

set_one_short(k, v, sweep) ==
    /\ store' =
         IF max_size = 0 THEN store
         ELSE LET kept == IF k \in StoredKeys(store) THEN Without(store, k)
                          ELSE IF Len(store) >= max_size - 1 THEN Tail(store)
                               ELSE store
                  put == Append(kept, [key |-> k, val |-> v,
                                       created |-> now, accessed |-> now])
              IN IF sweep THEN cleanup_expired(put) ELSE put
    /\ UNCHANGED <<ttl, max_size, now, hits, misses>>

set(k, v, sweep) ==
    /\ store' =
         IF max_size = 0 THEN store
         ELSE LET kept == IF k \in StoredKeys(store) THEN Without(store, k)
                          ELSE IF Len(store) >= max_size THEN Tail(store)
                               ELSE store
                  put == Append(kept, [key |-> k, val |-> v,
                                       created |-> now, accessed |-> now])
              IN IF sweep THEN cleanup_expired(put) ELSE put
    /\ UNCHANGED <<ttl, max_size, now, hits, misses>>

\* get(key): the value if present and unexpired, making the entry the most
\* recently used and counting a hit; otherwise absent, counting a miss (an
\* expired entry is destroyed).
get_no_touch(k) ==
    /\ IF lookup(k) = None
       THEN /\ store' = Without(store, k)
            /\ misses' = misses + 1
            /\ hits' = hits
       ELSE /\ hits' = hits + 1
            /\ misses' = misses
            /\ store' = store
    /\ UNCHANGED <<ttl, max_size, now>>

get_miscount(k) ==
    /\ IF lookup(k) = None
       THEN /\ store' = Without(store, k)
            /\ misses' = misses + 1
            /\ hits' = hits
       ELSE /\ store' = Append(Without(store, k),
                               [EntryOf(store, k) EXCEPT !.accessed = now])
            /\ hits' = hits + 1
            /\ misses' = misses + 1
    /\ UNCHANGED <<ttl, max_size, now>>

get(k) ==
    /\ IF lookup(k) = None
       THEN /\ store' = Without(store, k)
            /\ misses' = misses + 1
            /\ hits' = hits
       ELSE /\ store' = Append(Without(store, k),
                               [EntryOf(store, k) EXCEPT !.accessed = now])
            /\ hits' = hits + 1
            /\ misses' = misses
    /\ UNCHANGED <<ttl, max_size, now>>

\* invalidate(key): remove one entry; returns whether it existed.
invalidate(k) ==
    /\ store' = Without(store, k)
    /\ UNCHANGED <<ttl, max_size, now, hits, misses>>

\* clear(): remove all entries.
clear ==
    /\ store' = <<>>
    /\ UNCHANGED <<ttl, max_size, now, hits, misses>>

\* get_stats(): size, hits, misses, hit rate (in percent, 0 when no request
\* has been made) and total requests.
get_stats ==
    [size |-> Len(store),
     hits |-> hits,
     misses |-> misses,
     hit_rate |-> IF hits + misses = 0 THEN 0
                  ELSE (hits * 100) \div (hits + misses),
     total_requests |-> hits + misses]

(***************************************************************************)
(* The calls a client makes, with the client's own record of them.         *)
(***************************************************************************)
lruHarness == <<h_touch, h_ins, h_pure>>

Set(k, v, sweep) ==
    /\ set(k, v, sweep)
    /\ lastOp' = [op |-> "set", key |-> k, val |-> v, at |-> now]
    /\ UNCHANGED <<h_gets, h_hits, lruHarness>>
    /\ UNCHANGED nonCacheVars

Get(k) ==
    /\ h_gets < MaxGets
    /\ get(k)
    /\ lastOp' = [op |-> "get", key |-> k, val |-> lookup(k), at |-> now]
    /\ h_gets' = h_gets + 1
    /\ h_hits' = IF lookup(k) # None THEN h_hits + 1 ELSE h_hits
    /\ UNCHANGED lruHarness
    /\ UNCHANGED nonCacheVars

Invalidate(k) ==
    /\ invalidate(k)
    /\ lastOp' = [op |-> "invalidate", key |-> k,
                  val |-> IF k \in StoredKeys(store) THEN 1 ELSE 0, at |-> now]
    /\ UNCHANGED <<h_gets, h_hits, lruHarness>>
    /\ UNCHANGED nonCacheVars

Clear ==
    /\ clear
    /\ lastOp' = [op |-> "clear", key |-> None, val |-> None, at |-> now]
    /\ UNCHANGED <<h_gets, h_hits, lruHarness>>
    /\ UNCHANGED nonCacheVars

GetStats ==
    /\ lastOp' = [op |-> "get_stats", key |-> None,
                  val |-> get_stats.hit_rate, at |-> now]
    /\ UNCHANGED <<cacheVars, h_gets, h_hits, lruHarness>>
    /\ UNCHANGED nonCacheVars

\* Time passes between calls.
Tick ==
    /\ now < MaxTime
    /\ now' = now + 1
    /\ UNCHANGED <<ttl, max_size, store, hits, misses, harnessVars>>
    /\ UNCHANGED nonCacheVars

NoOp == [op |-> "none", key |-> None, val |-> None, at |-> 0]

InitHarness ==
    /\ lastOp = NoOp
    /\ h_gets = 0
    /\ h_hits = 0
    /\ h_touch = <<>>
    /\ h_ins = <<>>
    /\ h_pure = TRUE

InitCache ==
    /\ now = 0
    /\ store = <<>>
    /\ hits = 0
    /\ misses = 0

\* The parts of the state a specification does not use stay as they are
\* here.
IdleThreads ==
    /\ t_pc = <<>>
    /\ t_ret = <<>>
    /\ t_reads = [n |-> 0, key |-> 0, val |-> None, absent |-> FALSE]

IdleKey ==
    /\ k_calls = <<>>
    /\ k_keys = <<>>

IdleTool ==
    /\ tk_pc = <<>>
    /\ tk_query = <<>>
    /\ tk_cached = <<>>
    /\ tk_err = <<>>
    /\ tk_out = <<>>
    /\ api_calls = 0
    /\ search_history = <<>>

IdleRetry ==
    /\ r_max = 0
    /\ r_attempt = 0
    /\ r_pc = "idle"
    /\ r_hist = <<>>
    /\ r_slept = <<>>
    /\ r_result = "pending"

IdleOrch ==
    /\ o_pc = "idle"
    /\ o_interval = default_monitoring_interval
    /\ o_phase = "none"
    /\ o_trace = <<>>
    /\ o_err = "none"
    /\ o_swallowed = FALSE
    /\ o_logged = FALSE
    /\ o_sleep = 0
    /\ o_cycles = 0

NoReport == [kind |-> "none"]

IdleAnalyze ==
    /\ a_pc = "idle"
    /\ a_readable = TRUE
    /\ a_security = <<>>
    /\ a_business = <<>>
    /\ a_complexity_findings = <<>>
    /\ a_complexity = 1
    /\ a_weights = [security |-> 4, complexity |-> 2, business_impact |-> 4]
    /\ a_enabled = {}
    /\ a_found = <<>>
    /\ a_risk = NoReport
    /\ a_report = NoReport

NoRow == [kind |-> "none"]

IdleAudit ==
    /\ d_sessions = <<>>
    /\ d_events = 0
    /\ d_last = NoRow
    /\ d_pc = "idle"
    /\ d_limit = 0
    /\ d_history = <<>>

NoCall == [op |-> "none"]

IdleEvents ==
    /\ e_pc = "idle"
    /\ e_tables = 0
    /\ e_calls = 0
    /\ e_events = <<>>
    /\ e_backup = <<>>
    /\ e_ret = NoCall

IdleStore ==
    /\ s_db = <<>>
    /\ s_work = <<>>
    /\ s_now = 0
    /\ s_ops = 0
    /\ s_ret = NoCall
    /\ s_latest = <<>>

IdleServer ==
    /\ g_entry = "none"
    /\ g_pc = "idle"
    /\ g_env = <<>>
    /\ g_server = FALSE
    /\ g_reason = "none"
    /\ g_close = "none"
    /\ g_out = "none"
    /\ g_exit = -1

IdleParse ==
    /\ p_data = <<>>
    /\ p_pc = "idle"
    /\ p_out = NoCall

IdleSanitize ==
    /\ x_text = <<>>
    /\ x_pc = "idle"
    /\ x_out = <<>>

IdleValidator ==
    /\ v_next = 0
    /\ v_outcome = <<>>
    /\ v_printed = {}
    /\ v_all_errors = <<>>
    /\ v_all_passed = TRUE
    /\ v_exit = -1

IdleDetect ==
    /\ f_disk = <<>>
    /\ f_monitored = <<>>
    /\ f_pc = "idle"
    /\ f_result = NoCall

IdlePhases ==
    /\ w_changes = <<>>
    /\ w_pc = "idle"
    /\ w_calls = <<>>
    /\ w_generated = <<>>
    /\ w_results = <<>>
    /\ w_run = "none"

IdleIds ==
    /\ i_clock = 0
    /\ i_calls = <<>>
    /\ i_tasks = <<>>
    /\ i_table = {}

IdleCycle ==
    /\ c_pc = "idle"
    /\ c_current = None
    /\ c_history = <<>>
    /\ c_table = {}
    /\ c_errors = {}
    /\ c_cycles = 0
    /\ c_outcome = "none"

IdleScan ==
    /\ n_disk = <<>>
    /\ n_monitored = <<>>
    /\ n_pending = {}
    /\ n_pc = "idle"
    /\ n_scan = NoCall
    /\ n_session = <<>>

IdleLock ==
    /\ u_cache = <<>>
    /\ u_lock = None
    /\ u_deleted = {}
    /\ u_ret = NoCall

IdleConfig ==
    /\ m_config = {}
    /\ m_found = <<>>
    /\ m_pc = "idle"
    /\ m_enabled = {}
    /\ m_report = NoReport

IdleTrends ==
    /\ q_today = 0
    /\ q_days = 0
    /\ q_ages = {}
    /\ q_ret = NoCall

IdleMore ==
    /\ IdleEvents
    /\ IdleStore
    /\ IdleServer
    /\ IdleParse
    /\ IdleSanitize
    /\ IdleValidator
    /\ IdleDetect
    /\ IdlePhases
    /\ IdleIds
    /\ IdleCycle
    /\ IdleScan
    /\ IdleLock
    /\ IdleConfig
    /\ IdleTrends

IdleTesting == IdleOrch /\ IdleAnalyze /\ IdleAudit /\ IdleMore

Init ==
    /\ ttl \in 0..MaxTtl
    /\ max_size \in 0..MaxCapacity
    /\ InitCache
    /\ InitHarness
    /\ IdleThreads
    /\ IdleKey
    /\ IdleTool
    /\ IdleRetry
    /\ IdleTesting

Next ==
    \/ \E k \in Keys, v \in Vals, sweep \in BOOLEAN : Set(k, v, sweep)
    \/ \E k \in Keys : Get(k)
    \/ \E k \in Keys : Invalidate(k)
    \/ Clear
    \/ GetStats
    \/ Tick

Spec == Init /\ [][Next]_vars

(***************************************************************************)
(* The same cache driven by a client that keeps the order in which it      *)
(* touched the keys and the keys it inserted (for the eviction             *)
(* properties).  No time passes during the run, so no entry expires.       *)
(***************************************************************************)
LruKeyRange == 1..LruKeys

\* The value the client stores under key k.
LruVal(k) == 1 + (k % NumVals)

Touch(k) == Append(SelectSeq(h_touch, LAMBDA x : x # k), k)

LruSet(k) ==
    /\ set(k, LruVal(k), FALSE)
    /\ h_touch' = IF max_size = 0 THEN h_touch ELSE Touch(k)
    /\ IF h_pure /\ k \notin {h_ins[i].key : i \in DOMAIN h_ins}
       THEN /\ h_ins' = Append(h_ins, [key |-> k, val |-> LruVal(k)])
            /\ h_pure' = TRUE
       ELSE /\ h_ins' = <<>>
            /\ h_pure' = FALSE
    /\ UNCHANGED <<lastOp, h_gets, h_hits>>
    /\ UNCHANGED nonCacheVars

LruGet(k) ==
    /\ hits + misses < MaxGets
    /\ get(k)
    /\ h_touch' = IF lookup(k) # None THEN Touch(k) ELSE h_touch
    /\ h_ins' = <<>>
    /\ h_pure' = FALSE
    /\ UNCHANGED <<lastOp, h_gets, h_hits>>
    /\ UNCHANGED nonCacheVars

LruInvalidate(k) ==
    /\ invalidate(k)
    /\ h_ins' = <<>>
    /\ h_pure' = FALSE
    /\ UNCHANGED <<lastOp, h_gets, h_hits, h_touch>>
    /\ UNCHANGED nonCacheVars

InitLru ==
    /\ ttl = MaxTtl
    /\ max_size \in 0..LruCapacity
    /\ InitCache
    /\ InitHarness
    /\ IdleThreads
    /\ IdleKey
    /\ IdleTool
    /\ IdleRetry
    /\ IdleTesting

NextLru ==
    \/ \E k \in LruKeyRange : LruSet(k)
    \/ \E k \in LruKeyRange : LruGet(k)
    \/ \E k \in LruKeyRange : LruInvalidate(k)

SpecLru == InitLru /\ [][NextLru]_vars

(***************************************************************************)
(* Worker threads sharing one cache whose capacity holds every key they    *)
(* write.  Worker t runs, for i = 1..OpsPerThread: cache.set(key, value);  *)
(* cache.get(key), on keys of its own; a reader thread gets any of the     *)
(* keys at any moment, also after the workers have finished.               *)
(***************************************************************************)
Threads == 1..NumThreads

ThreadKey(t, i) == (t - 1) * OpsPerThread + i

KeyVal(k) == 1 + (k % NumVals)

WrittenKeys == {ThreadKey(t, i) : t \in Threads, i \in 1..OpsPerThread}

WorkerSet(t) ==
    /\ t_pc[t] < 2 * OpsPerThread
    /\ t_pc[t] % 2 = 0
    /\ \E sweep \in BOOLEAN :
          set(ThreadKey(t, (t_pc[t] \div 2) + 1),
              KeyVal(ThreadKey(t, (t_pc[t] \div 2) + 1)), sweep)
    /\ t_pc' = [t_pc EXCEPT ![t] = @ + 1]
    /\ UNCHANGED <<t_ret, t_reads, harnessVars, keyVars, toolVars, retryVars, testingVars>>

WorkerGet(t) ==
    /\ t_pc[t] % 2 = 1
    /\ get(ThreadKey(t, (t_pc[t] + 1) \div 2))
    /\ t_ret' = [t_ret EXCEPT ![t] = lookup(ThreadKey(t, (t_pc[t] + 1) \div 2))]
    /\ t_pc' = [t_pc EXCEPT ![t] = @ + 1]
    /\ UNCHANGED <<t_reads, harnessVars, keyVars, toolVars, retryVars, testingVars>>

ReaderGet(k) ==
    /\ t_reads.n < MaxReads
    /\ get(k)
    /\ t_reads' = [n |-> t_reads.n + 1, key |-> k, val |-> lookup(k),
                    absent |-> t_reads.absent \/ lookup(k) = None]
    /\ UNCHANGED <<t_pc, t_ret, harnessVars, keyVars, toolVars, retryVars, testingVars>>

InitConc ==
    /\ ttl = MaxTtl
    /\ max_size = NumThreads * OpsPerThread
    /\ InitCache
    /\ InitHarness
    /\ t_pc = [t \in Threads |-> 0]
    /\ t_ret = [t \in Threads |-> None]
    /\ t_reads = [n |-> 0, key |-> 0, val |-> None, absent |-> FALSE]
    /\ IdleKey
    /\ IdleTool
    /\ IdleRetry
    /\ IdleTesting

NextConc ==
    \/ \E t \in Threads : WorkerSet(t)
    \/ \E t \in Threads : WorkerGet(t)
    \/ \E k \in WrittenKeys : ReaderGet(k)

SpecConc == InitConc /\ [][NextConc]_vars

(***************************************************************************)
(* generate_cache_key(operation, **kwargs).  The keyword arguments are a   *)
(* sequence of <<name, value>> pairs in the order the caller wrote them.   *)
(***************************************************************************)
ArgNames == 1..KeyNames

ArgVals == 1..KeyVals

DistinctNames(kw) == \A i, j \in DOMAIN kw : kw[i][1] = kw[j][1] => i = j

AllKwargs ==
    {kw \in UNION {[1..n -> ArgNames \X ArgVals] : n \in 0..KeyNames} :
        DistinctNames(kw)}

AllCalls == [op : 1..KeyOps, kwargs : AllKwargs]

DropAt(q, m) == [i \in 1..(Len(q) - 1) |-> IF i < m THEN q[i] ELSE q[i + 1]]

\* The keyword arguments ordered by name.
RECURSIVE sorted_items(_)
sorted_items(kw) ==
    IF kw = <<>> THEN <<>>
    ELSE LET m == CHOOSE i \in DOMAIN kw : \A j \in DOMAIN kw : kw[i][1] <= kw[j][1]
         IN <<kw[m]>> \o sorted_items(DropAt(kw, m))

\* The text that is hashed: the operation, then name and value of each item.
RECURSIVE serialize(_)
serialize(items) ==
    IF items = <<>> THEN <<>>
    ELSE <<items[1][1], items[1][2]>> \o serialize(Tail(items))

\* The digest of a text, as a number: one digit per symbol.
DigestBase == 1 + KeyOps + KeyNames + KeyVals

RECURSIVE digest(_)
digest(text) ==
    IF text = <<>> THEN 0
    ELSE digest(SubSeq(text, 1, Len(text) - 1)) * DigestBase + text[Len(text)]

generate_cache_key_unsorted(op, kw) == digest(<<op>> \o serialize(kw))

generate_cache_key(op, kw) == digest(<<op>> \o serialize(sorted_items(kw)))

GenerateKeys ==
    /\ k_keys = <<>>
    /\ k_keys' = <<generate_cache_key(k_calls[1].op, k_calls[1].kwargs),
                   generate_cache_key(k_calls[2].op, k_calls[2].kwargs)>>
    /\ UNCHANGED <<k_calls, cacheVars, harnessVars, threadVars, toolVars, retryVars, testingVars>>

InitKey ==
    /\ k_calls \in AllCalls \X AllCalls
    /\ k_keys = <<>>
    /\ ttl = 0
    /\ max_size = 0
    /\ InitCache
    /\ InitHarness
    /\ IdleThreads
    /\ IdleTool
    /\ IdleRetry
    /\ IdleTesting

NextKey == GenerateKeys

SpecKey == InitKey /\ [][NextKey]_vars

(***************************************************************************)
(* format_error_response(error, operation).  An error is a record: cls is  *)
(* its class, code the class's own attribute (status_code of an APIError,  *)
(* field of a ValidationError, retry_after of a RateLimitError, status of  *)
(* an HTTP client error; 0 when unset), text what its message mentions.    *)
(***************************************************************************)
ErrorClasses ==
    {"APIError", "ValidationError", "NetworkError", "RateLimitError",
     "CacheError", "MCPError", "ClientResponseError", "Exception"}

AllErrors ==
    [cls : ErrorClasses, code : {0, 401, 403, 404, 429, 500, 503, 400},
     text : {"timeout", "connection", "other"}]

format_error_response_no_api(error) ==
    IF error.cls = "ValidationError"
    THEN IF error.code # 0 THEN "Validation Error in field: message"
         ELSE "Validation Error: message"
    ELSE IF error.text = "timeout" THEN "Request Timeout"
    ELSE IF error.text = "connection" THEN "Connection Error"
    ELSE "An unexpected error occurred"

format_error_response(error) ==
    IF error.cls = "APIError"
    THEN IF error.code # 0 THEN "API Error (status): message"
         ELSE "API Error: message"
    ELSE IF error.cls = "ValidationError"
    THEN IF error.code # 0 THEN "Validation Error in field: message"
         ELSE "Validation Error: message"
    ELSE IF error.cls = "NetworkError" THEN "Network Error"
    ELSE IF error.cls = "RateLimitError"
    THEN IF error.code # 0 THEN "Rate Limit Exceeded: wait retry_after seconds"
         ELSE "Rate Limit Exceeded"
    ELSE IF error.cls = "CacheError" THEN "Cache Error during operation: message"
    ELSE IF error.cls = "ClientResponseError"
    THEN CASE error.code = 401 -> "Authentication Error"
           [] error.code = 403 -> "Authorization Error"
           [] error.code = 404 -> "Resource Not Found"
           [] error.code = 429 -> "Rate Limit Exceeded"
           [] error.code = 500 -> "Server Error"
           [] error.code = 503 -> "Service Unavailable"
           [] OTHER -> "HTTP Error (status): message"
    ELSE IF error.text = "timeout" THEN "Request Timeout"
    ELSE IF error.text = "connection" THEN "Connection Error"
    ELSE "An unexpected error occurred"

(***************************************************************************)
(* The opportunity discovery tool.  An invocation derives the cache key of *)
(* its arguments and looks it up; on a hit it returns the cached digest;   *)
(* on a miss it calls the API client (the only suspension point), then     *)
(* renders the digest, caches it and records the query, or, when the call  *)
(* raised, returns the formatted error.                                    *)
(***************************************************************************)
Tasks == 1..NumTasks

Queries == 1..NumQueries

Payloads == 1..NumPayloads

NoError == [cls |-> "none", code |-> 0, text |-> "other"]

NoOutput == [kind |-> "none", digest |-> 0, msg |-> ""]

\* The errors the mocked API client raises.
ApiErrors ==
    {[cls |-> "APIError", code |-> 500, text |-> "other"],
     [cls |-> "APIError", code |-> 0, text |-> "other"],
     [cls |-> "Exception", code |-> 0, text |-> "timeout"]}

\* generate_cache_key("opportunity_discovery", query=q, max_results=10)
tool_cache_key(q) == generate_cache_key(1, <<<<1, q>>, <<2, 1>>>>)

\* The digest rendered from a response, as a number.
create_summary(q, payload) == q * (NumPayloads + 1) + payload

opportunity_discovery_uncached(t, q) ==
    /\ tk_pc[t] = "idle"
    /\ get(tool_cache_key(q))
    /\ tk_pc' = [tk_pc EXCEPT ![t] = "awaiting"]
    /\ tk_out' = tk_out
    /\ api_calls' = api_calls + 1
    /\ tk_query' = [tk_query EXCEPT ![t] = q]
    /\ UNCHANGED <<tk_err, search_history>>

opportunity_discovery(t, q) ==
    /\ tk_pc[t] = "idle"
    /\ get(tool_cache_key(q))
    /\ IF lookup(tool_cache_key(q)) # None
       THEN /\ tk_pc' = [tk_pc EXCEPT ![t] = "done"]
            /\ tk_out' = [tk_out EXCEPT ![t] =
                            [kind |-> "text",
                             digest |-> lookup(tool_cache_key(q)), msg |-> ""]]
            /\ api_calls' = api_calls
       ELSE /\ tk_pc' = [tk_pc EXCEPT ![t] = "awaiting"]
            /\ tk_out' = tk_out
            /\ api_calls' = api_calls + 1
    /\ tk_query' = [tk_query EXCEPT ![t] = q]
    /\ UNCHANGED <<tk_err, search_history>>

search_returns(t, payload, sweep) ==
    /\ tk_pc[t] = "awaiting"
    /\ set(tool_cache_key(tk_query[t]), create_summary(tk_query[t], payload), sweep)
    /\ search_history' = Append(search_history, tk_query[t])
    /\ tk_out' = [tk_out EXCEPT ![t] =
                    [kind |-> "text",
                     digest |-> create_summary(tk_query[t], payload), msg |-> ""]]
    /\ tk_pc' = [tk_pc EXCEPT ![t] = "done"]
    /\ UNCHANGED <<tk_query, tk_err, api_calls>>

search_raises(t, error) ==
    /\ tk_pc[t] = "awaiting"
    /\ tk_err' = [tk_err EXCEPT ![t] = error]
    /\ tk_out' = [tk_out EXCEPT ![t] =
                    [kind |-> "text", digest |-> 0,
                     msg |-> format_error_response(error)]]
    /\ tk_pc' = [tk_pc EXCEPT ![t] = "done"]
    /\ UNCHANGED <<cacheVars, tk_query, api_calls, search_history>>

Invoke(t, q) ==
    /\ opportunity_discovery(t, q)
    /\ tk_cached' = [tk_cached EXCEPT ![t] = lookup(tool_cache_key(q))]
    /\ UNCHANGED <<harnessVars, threadVars, keyVars, retryVars, testingVars>>

SearchReturns(t, payload, sweep) ==
    /\ search_returns(t, payload, sweep)
    /\ UNCHANGED <<tk_cached, harnessVars, threadVars, keyVars, retryVars, testingVars>>

SearchRaises(t, error) ==
    /\ search_raises(t, error)
    /\ UNCHANGED <<tk_cached, harnessVars, threadVars, keyVars, retryVars, testingVars>>

InitTool ==
    /\ ttl \in 1..MaxTtl
    /\ max_size \in 1..MaxCapacity
    /\ InitCache
    /\ InitHarness
    /\ IdleThreads
    /\ IdleKey
    /\ IdleRetry
    /\ IdleTesting
    /\ tk_pc = [t \in Tasks |-> "idle"]
    /\ tk_query = [t \in Tasks |-> None]
    /\ tk_cached = [t \in Tasks |-> None]
    /\ tk_err = [t \in Tasks |-> NoError]
    /\ tk_out = [t \in Tasks |-> NoOutput]
    /\ api_calls = 0
    /\ search_history = <<>>

NextTool ==
    \/ \E t \in Tasks, q \in Queries : Invoke(t, q)
    \/ \E t \in Tasks, payload \in Payloads, sweep \in BOOLEAN :
          SearchReturns(t, payload, sweep)
    \/ \E t \in Tasks, error \in ApiErrors : SearchRaises(t, error)
    \/ Tick

SpecTool == InitTool /\ [][NextTool]_vars

(***************************************************************************)
(* retry_with_backoff(max_retries, base_delay, max_delay): the wrapper     *)
(* around an async function.  Each invocation of the function returns      *)
(* ("ok") or raises an error of one of the kinds below.  Delays are in     *)
(* tenths of a second.                                                     *)
(***************************************************************************)
RaisedKinds ==
    {"ValidationError", "MCPError:VALIDATION_ERROR", "APIError", "Exception"}

\* isinstance(e, (ValidationError, MCPError)) and
\* e.error_code in ['VALIDATION_ERROR']
not_retried_any_mcp(e) ==
    e \in {"ValidationError", "MCPError:VALIDATION_ERROR", "APIError"}

not_retried_class_only(e) == e = "ValidationError"

not_retried(e) == e \in {"ValidationError", "MCPError:VALIDATION_ERROR"}

\* if attempt >= max_retries: raise
gives_up_one_early(attempt) == attempt + 1 >= r_max

gives_up(attempt) == attempt >= r_max

RECURSIVE Pow2(_)
Pow2(n) == IF n = 0 THEN 1 ELSE 2 * Pow2(n - 1)

Min(a, b) == IF a <= b THEN a ELSE b

\* delay = min(base_delay * (2 ** attempt), max_delay)
backoff_delay(attempt) == Min(base_delay * 10 * Pow2(attempt), max_delay * 10)

\* One pass of the loop body: the function is invoked and its outcome
\* handled, up to the return, the raise or the start of the sleep.
retry_attempt(outcome, jitter) ==
    /\ r_pc = "call"
    /\ r_hist' = Append(r_hist, outcome)
    /\ IF outcome = "ok"
       THEN /\ r_pc' = "returned"
            /\ r_result' = "value"
            /\ r_slept' = r_slept
       ELSE IF not_retried(outcome) \/ gives_up(r_attempt)
       THEN /\ r_pc' = "raised"
            /\ r_result' = outcome
            /\ r_slept' = r_slept
       ELSE /\ r_pc' = "sleep"
            /\ r_result' = r_result
            /\ r_slept' = Append(r_slept,
                                 backoff_delay(r_attempt)
                                   + (IF jitter THEN backoff_delay(r_attempt) \div 10
                                      ELSE 0))
    /\ UNCHANGED <<r_max, r_attempt>>

\* asyncio.sleep(total_delay) ends; the loop goes to the next attempt, or,
\* with range(max_retries + 1) exhausted, to raise last_exception.
retry_wake ==
    /\ r_pc = "sleep"
    /\ r_attempt' = r_attempt + 1
    /\ IF r_attempt + 1 <= r_max
       THEN /\ r_pc' = "call"
            /\ r_result' = r_result
       ELSE /\ r_pc' = "raised"
            /\ r_result' = r_hist[Len(r_hist)]
    /\ UNCHANGED <<r_max, r_hist, r_slept>>

RetryAttempt(outcome, jitter) ==
    /\ retry_attempt(outcome, jitter)
    /\ UNCHANGED <<cacheVars, harnessVars, threadVars, keyVars, toolVars, testingVars>>

RetryWake ==
    /\ retry_wake
    /\ UNCHANGED <<cacheVars, harnessVars, threadVars, keyVars, toolVars, testingVars>>

\* The decorated call starts: range(max_retries + 1) is empty when
\* max_retries < 0, and the loop is followed by raise last_exception with
\* last_exception still None, which raises a TypeError.
InitRetry ==
    /\ r_max \in -1..MaxRetries
    /\ r_attempt = 0
    /\ r_pc = IF r_max < 0 THEN "raised" ELSE "call"
    /\ r_hist = <<>>
    /\ r_slept = <<>>
    /\ r_result = IF r_max < 0 THEN "TypeError" ELSE "pending"
    /\ ttl = 0
    /\ max_size = 0
    /\ InitCache
    /\ InitHarness
    /\ IdleThreads
    /\ IdleKey
    /\ IdleTool
    /\ IdleTesting

NextRetry ==
    \/ \E outcome \in RaisedKinds \cup {"ok"}, jitter \in BOOLEAN :
          RetryAttempt(outcome, jitter)
    \/ RetryWake

SpecRetry == InitRetry /\ [][NextRetry]_vars

\* The wrapped function finishes every invocation and every sleep ends.
SpecRetryFair == SpecRetry /\ WF_vars(NextRetry)

(***************************************************************************)
(* AdaptiveTestingOrchestrator: the monitoring loop of                     *)
(* start_continuous_monitoring, one action per awaited step of             *)
(* _monitoring_cycle and _execute_testing_pipeline.  Each step either      *)
(* completes or raises an Exception.                                       *)
(***************************************************************************)
\* class TestingPhase, in declaration order.
TestingPhase ==
    <<"discovery", "generation", "execution", "analysis", "optimization">>

\* The phase _execute_testing_pipeline assigns after the work of phase p.
pipeline_next(p) ==
    CASE p = "discovery" -> "generation"
      [] p = "generation" -> "execution"
      [] p = "execution" -> "optimization"

PutPhase(p) ==
    /\ o_phase' = p
    /\ o_trace' = IF p = o_phase THEN o_trace ELSE Append(o_trace, p)

\* except Exception in start_continuous_monitoring, as a bug would have it:
\* the error leaves the loop.
loop_handler_reraises ==
    /\ o_pc' = "terminated"
    /\ o_sleep' = 0

\* ... with the sleeps swapped.
loop_handler_short_sleep ==
    /\ o_pc' = "sleep"
    /\ o_sleep' = o_interval

\* except Exception as e: logger.error(...); await asyncio.sleep(60)
loop_handler ==
    /\ o_pc' = "sleep"
    /\ o_sleep' = error_sleep

\* _monitoring_cycle returned: await asyncio.sleep(monitoring_interval)
cycle_returns ==
    /\ o_pc' = "sleep"
    /\ o_sleep' = o_interval

\* changes = await self._detect_code_changes()
detect_code_changes(outcome) ==
    /\ o_pc = "detect"
    /\ CASE outcome = "no_changes" -> cycle_returns /\ o_err' = o_err
         [] outcome = "changes" ->
               /\ o_pc' = "start_session"
               /\ UNCHANGED <<o_sleep, o_err>>
         [] outcome = "raise" -> loop_handler /\ o_err' = "detect"
    /\ UNCHANGED <<o_interval, o_phase, o_trace, o_swallowed, o_logged, o_cycles>>

\* session = await self._start_testing_session(changes)
start_testing_session(outcome) ==
    /\ o_pc = "start_session"
    /\ IF outcome = "ok"
       THEN /\ o_pc' = "discovery"
            /\ o_phase' = "discovery"
            /\ o_trace' = <<"discovery">>
            /\ UNCHANGED <<o_sleep, o_err>>
       ELSE /\ loop_handler
            /\ o_err' = "start_session"
            /\ UNCHANGED <<o_phase, o_trace>>
    /\ UNCHANGED <<o_interval, o_swallowed, o_logged, o_cycles>>

\* One phase of _execute_testing_pipeline: session.phase was set on entry;
\* the phase's work completes and the next phase is assigned (after the
\* last one the cycle marks the session ANALYSIS and goes on to log it), or
\* the work raises and the cycle's handler marks the session ANALYSIS.  In
\* the generation phase a request whose generation fails is logged and
\* skipped.
pipeline_phase(outcome) ==
    /\ o_pc \in {"discovery", "generation", "execution", "optimization"}
    /\ CASE outcome = "ok" ->
               /\ IF o_pc = "optimization"
                  THEN o_pc' = "log_session" /\ PutPhase("analysis")
                  ELSE o_pc' = pipeline_next(o_pc) /\ PutPhase(pipeline_next(o_pc))
               /\ UNCHANGED <<o_err, o_swallowed>>
         [] outcome = "request_failed" ->
               /\ o_pc = "generation"
               /\ o_swallowed' = TRUE
               /\ UNCHANGED <<o_pc, o_phase, o_trace, o_err>>
         [] outcome = "raise" ->
               /\ o_pc' = "log_error"
               /\ PutPhase("analysis")
               /\ o_err' = "pipeline"
               /\ UNCHANGED o_swallowed
    /\ UNCHANGED <<o_interval, o_logged, o_sleep, o_cycles>>

\* await self.audit_manager.log_session(session), inside the try.
log_session_step(outcome) ==
    /\ o_pc = "log_session"
    /\ IF outcome = "ok"
       THEN /\ cycle_returns
            /\ o_phase' = "none"
            /\ UNCHANGED <<o_trace, o_err>>
       ELSE /\ o_pc' = "log_error"
            /\ PutPhase("analysis")
            /\ o_err' = "log_session"
            /\ UNCHANGED o_sleep
    /\ UNCHANGED <<o_interval, o_swallowed, o_logged, o_cycles>>

\* await self.audit_manager.log_error(str(e), session.session_id), in the
\* cycle's except clause; finally: self.current_session = None.
log_error_step(outcome) ==
    /\ o_pc = "log_error"
    /\ IF outcome = "ok"
       THEN /\ cycle_returns
            /\ o_logged' = TRUE
            /\ o_err' = o_err
       ELSE /\ loop_handler
            /\ o_logged' = o_logged
            /\ o_err' = "log_error"
    /\ o_phase' = "none"
    /\ UNCHANGED <<o_interval, o_trace, o_swallowed, o_cycles>>

\* The sleep ends and the while loop starts the next cycle.
next_cycle ==
    /\ o_pc = "sleep"
    /\ o_cycles < MaxCycles
    /\ o_pc' = "detect"
    /\ o_cycles' = o_cycles + 1
    /\ o_err' = "none"
    /\ o_swallowed' = FALSE
    /\ o_logged' = FALSE
    /\ o_trace' = <<>>
    /\ UNCHANGED <<o_interval, o_phase, o_sleep>>

OrchOthers ==
    <<cacheVars, harnessVars, threadVars, keyVars, toolVars, retryVars, analyzeVars,
      auditVars, moreVars>>

DetectCodeChanges(outcome) == detect_code_changes(outcome) /\ UNCHANGED OrchOthers

StartTestingSession(outcome) == start_testing_session(outcome) /\ UNCHANGED OrchOthers

PipelinePhase(outcome) == pipeline_phase(outcome) /\ UNCHANGED OrchOthers

LogSession(outcome) == log_session_step(outcome) /\ UNCHANGED OrchOthers

LogError(outcome) == log_error_step(outcome) /\ UNCHANGED OrchOthers

NextCycle == next_cycle /\ UNCHANGED OrchOthers

\* The loop after _perform_initial_scan.
InitOrch ==
    /\ o_pc = "detect"
    /\ o_interval \in {default_monitoring_interval, production_monitoring_interval}
    /\ o_phase = "none"
    /\ o_trace = <<>>
    /\ o_err = "none"
    /\ o_swallowed = FALSE
    /\ o_logged = FALSE
    /\ o_sleep = 0
    /\ o_cycles = 0
    /\ ttl = 0
    /\ max_size = 0
    /\ InitCache
    /\ InitHarness
    /\ IdleThreads
    /\ IdleKey
    /\ IdleTool
    /\ IdleRetry
    /\ IdleAnalyze
    /\ IdleAudit
    /\ IdleMore

NextOrch ==
    \/ \E outcome \in {"no_changes", "changes", "raise"} : DetectCodeChanges(outcome)
    \/ \E outcome \in {"ok", "raise"} : StartTestingSession(outcome)
    \/ \E outcome \in {"ok", "request_failed", "raise"} : PipelinePhase(outcome)
    \/ \E outcome \in {"ok", "raise"} : LogSession(outcome)
    \/ \E outcome \in {"ok", "raise"} : LogError(outcome)
    \/ NextCycle

SpecOrch == InitOrch /\ [][NextOrch]_vars

(***************************************************************************)
(* The analyzers of the discovery phase, applied to one changed file:      *)
(* RiskAnalyzer.analyze_change, then ComplianceChecker.check_file.  The    *)
(* pattern detectors are inputs: what they return for the file's content.  *)
(* Scores are exact fractions [n, d]; finding scores are in tenths,        *)
(* compliance scores in hundredths.                                        *)
(***************************************************************************)
SeqsUpTo(S, n) == UNION {[1..k -> S] : k \in 0..n}

Max(a, b) == IF a >= b THEN a ELSE b

RECURSIVE SumSeq(_)
SumSeq(q) == IF q = <<>> THEN 0 ELSE Head(q) + SumSeq(Tail(q))

\* ---- ComplianceChecker ----
ComplianceCategories ==
    <<"data_privacy", "api_security", "financial_regulations",
      "grants_compliance", "audit_requirements", "accessibility">>

ComplianceLevels == {"critical", "high", "medium", "low", "info"}

GrantsCategories ==
    {"financial_regulations", "grants_compliance", "audit_requirements"}

\* The penalty table with the two highest severities exchanged.
penalties_swapped(level) ==
    CASE level = "critical" -> 20
      [] level = "high" -> 40
      [] level = "medium" -> 10
      [] level = "low" -> 5
      [] level = "info" -> 1

penalties(level) ==
    CASE level = "critical" -> 40
      [] level = "high" -> 20
      [] level = "medium" -> 10
      [] level = "low" -> 5
      [] level = "info" -> 1

calculate_compliance_score(violations) ==
    IF violations = <<>> THEN 100
    ELSE Max(0, 100 - Min(SumSeq([i \in DOMAIN violations |->
                                     penalties(violations[i].level)]), 100))

\* The summary with the category filter left out.
generate_compliance_summary_unfiltered(violations, categories) ==
    [c \in {categories[i] : i \in DOMAIN categories} |->
        \A i \in DOMAIN violations : violations[i].level # "critical"]

generate_compliance_summary(violations, categories) ==
    [c \in {categories[i] : i \in DOMAIN categories} |->
        \A i \in DOMAIN violations :
           violations[i].category = c => violations[i].level # "critical"]

\* The error report without its violation.
create_error_report_bare ==
    [kind |-> "compliance", is_compliant |-> FALSE, overall_score |-> 0,
     violations |-> <<>>, categories_checked |-> <<>>,
     compliance_summary |-> <<>>]

create_error_report ==
    [kind |-> "compliance", is_compliant |-> FALSE, overall_score |-> 0,
     violations |-> <<[category |-> "data_privacy", level |-> "high"]>>,
     categories_checked |-> <<>>,
     compliance_summary |-> <<>>]

check_file(readable, enabled, found) ==
    IF ~readable THEN create_error_report
    ELSE
      LET privacy == "data_privacy" \in enabled
          api == "api_security" \in enabled
          grants == enabled \cap GrantsCategories # {}
          all_violations ==
             (IF privacy
              THEN SelectSeq(found, LAMBDA v : v.category = "data_privacy")
              ELSE <<>>)
             \o (IF api
                 THEN SelectSeq(found, LAMBDA v : v.category = "api_security")
                 ELSE <<>>)
             \o (IF grants
                 THEN SelectSeq(found, LAMBDA v : v.category \in GrantsCategories)
                 ELSE <<>>)
          categories_checked ==
             (IF privacy THEN <<"data_privacy">> ELSE <<>>)
             \o (IF api THEN <<"api_security">> ELSE <<>>)
             \o (IF grants
                 THEN <<"financial_regulations", "grants_compliance",
                        "audit_requirements">>
                 ELSE <<>>)
          overall_score == calculate_compliance_score(all_violations)
      IN [kind |-> "compliance",
          is_compliant |->
             (overall_score >= 80
              /\ ~ \E i \in DOMAIN all_violations :
                      all_violations[i].level = "critical"),
          overall_score |-> overall_score,
          violations |-> all_violations,
          categories_checked |-> categories_checked,
          compliance_summary |->
             generate_compliance_summary(all_violations, categories_checked)]

\* ---- RiskAnalyzer ----
\* The findings the detectors create, by the pattern that matched.
Finding(kind) ==
    CASE kind = "sql_injection" ->
            [category |-> "security", level |-> "high", score |-> 8, kind |-> kind]
      [] kind = "xss" ->
            [category |-> "security", level |-> "medium", score |-> 6, kind |-> kind]
      [] kind = "path_traversal" ->
            [category |-> "security", level |-> "medium", score |-> 7, kind |-> kind]
      [] kind = "hardcoded_secret" ->
            [category |-> "security", level |-> "high", score |-> 9, kind |-> kind]
      [] kind = "financial_data" ->
            [category |-> "data_integrity", level |-> "high", score |-> 8, kind |-> kind]
      [] kind = "critical_module" ->
            [category |-> "business_logic", level |-> "high", score |-> 8, kind |-> kind]
      [] kind = "high_impact" ->
            [category |-> "business_logic", level |-> "medium", score |-> 6, kind |-> kind]
      [] kind = "grants_calculation" ->
            [category |-> "business_logic", level |-> "high", score |-> 9, kind |-> kind]
      [] kind = "syntax_error" ->
            [category |-> "business_logic", level |-> "critical", score |-> 10, kind |-> kind]
      [] kind = "high_function_count" ->
            [category |-> "business_logic", level |-> "low", score |-> 3, kind |-> kind]
      [] kind = "analysis_error" ->
            [category |-> "business_logic", level |-> "medium", score |-> 5, kind |-> kind]

SecurityKinds ==
    {"sql_injection", "xss", "path_traversal", "hardcoded_secret", "financial_data"}

BusinessKinds == {"critical_module", "high_impact", "grants_calculation"}

ComplexityKinds == {"syntax_error", "high_function_count"}

Findings(kinds) == [i \in DOMAIN kinds |-> Finding(kinds[i])]

level_weight(level) ==
    CASE level = "critical" -> 4
      [] level = "high" -> 3
      [] level = "medium" -> 2
      [] level = "low" -> 1

\* min(sum(score * weight) / len, 1.0), and 0.0 without findings of the
\* category.
calculate_category_score(findings, category) ==
    LET category_findings == SelectSeq(findings, LAMBDA f : f.category = category)
        total == SumSeq([i \in DOMAIN category_findings |->
                            category_findings[i].score
                              * level_weight(category_findings[i].level)])
    IN IF category_findings = <<>> THEN [n |-> 0, d |-> 1]
       ELSE IF total >= 10 * Len(category_findings) THEN [n |-> 1, d |-> 1]
       ELSE [n |-> total, d |-> 10 * Len(category_findings)]

\* The thresholds with high lowered to the medium threshold.
determine_risk_level_low_bar(score) ==
    IF 10 * score.n >= 8 * score.d THEN "critical"
    ELSE IF 10 * score.n >= 4 * score.d THEN "high"
    ELSE "low"

determine_risk_level(score) ==
    IF 10 * score.n >= 8 * score.d THEN "critical"
    ELSE IF 10 * score.n >= 6 * score.d THEN "high"
    ELSE IF 10 * score.n >= 4 * score.d THEN "medium"
    ELSE "low"

\* The error assessment reported as low risk.
create_error_assessment_low ==
    [kind |-> "risk", overall_score |-> [n |-> 0, d |-> 10], level |-> "low",
     findings |-> <<Finding("analysis_error")>>,
     security_score |-> [n |-> 0, d |-> 1],
     business_impact_score |-> [n |-> 5, d |-> 10]]

create_error_assessment ==
    [kind |-> "risk", overall_score |-> [n |-> 5, d |-> 10], level |-> "medium",
     findings |-> <<Finding("analysis_error")>>,
     security_score |-> [n |-> 0, d |-> 1],
     business_impact_score |-> [n |-> 5, d |-> 10]]

\* overall = security * w.security + (complexity / 10) * w.complexity
\*           + business * w.business_impact, the weights being in tenths.
analyze_change(readable, security, complexity_findings, business, complexity, w) ==
    IF ~readable THEN create_error_assessment
    ELSE
      LET security_findings == Findings(security)
          business_findings == Findings(business)
          all_findings ==
             security_findings \o Findings(complexity_findings) \o business_findings
          security_score == calculate_category_score(security_findings, "security")
          business_score ==
             calculate_category_score(business_findings, "business_logic")
          overall_score ==
             [n |-> 10 * security_score.n * w.security * business_score.d
                    + complexity * w.complexity * security_score.d * business_score.d
                    + 10 * business_score.n * w.business_impact * security_score.d,
              d |-> 100 * security_score.d * business_score.d]
      IN [kind |-> "risk", overall_score |-> overall_score,
          level |-> determine_risk_level(overall_score),
          findings |-> all_findings,
          security_score |-> security_score,
          business_impact_score |-> business_score]

\* ---- one file through both analyzers ----
AnalyzeOthers ==
    <<cacheVars, harnessVars, threadVars, keyVars, toolVars, retryVars, orchVars,
      auditVars, moreVars>>

AnalyzeInputs ==
    <<a_readable, a_security, a_business, a_complexity_findings, a_complexity,
      a_weights, a_enabled, a_found>>

\* risk_score = await self.risk_analyzer.analyze_change(change)
AnalyzeChange ==
    /\ a_pc = "risk"
    /\ a_risk' = analyze_change(a_readable, a_security, a_complexity_findings,
                                a_business, a_complexity, a_weights)
    /\ a_pc' = "compliance"
    /\ UNCHANGED <<AnalyzeInputs, a_report, AnalyzeOthers>>

\* compliance_results = await self.compliance_checker.check_file(path)
CheckFile ==
    /\ a_pc = "compliance"
    /\ a_report' = check_file(a_readable, a_enabled, a_found)
    /\ a_pc' = "done"
    /\ UNCHANGED <<AnalyzeInputs, a_risk, AnalyzeOthers>>

CheckedCategories == {ComplianceCategories[i] : i \in 1..NumCategories}

DefaultWeights == [security |-> 4, complexity |-> 2, business_impact |-> 4]

OrchestratorWeights == [security |-> 3, complexity |-> 2, business_impact |-> 5]

\* The inputs: either the risk detectors' results vary and the compliance
\* checkers find nothing, or the other way round.
InitAnalyze ==
    /\ a_pc = "risk"
    /\ a_readable \in BOOLEAN
    /\ a_risk = NoReport
    /\ a_report = NoReport
    /\ \/ /\ a_security \in SeqsUpTo(SecurityKinds, MaxFindings)
          /\ a_business \in SeqsUpTo(BusinessKinds, MaxBusinessFindings)
          /\ a_complexity_findings \in {<<>>} \cup {<<k>> : k \in ComplexityKinds}
          /\ a_complexity \in {base_complexity, max_complexity}
          /\ a_weights \in {DefaultWeights, OrchestratorWeights}
          /\ a_enabled = CheckedCategories
          /\ a_found = <<>>
       \/ /\ a_security = <<>>
          /\ a_business = <<>>
          /\ a_complexity_findings = <<>>
          /\ a_complexity = base_complexity
          /\ a_weights = DefaultWeights
          /\ a_enabled \in SUBSET CheckedCategories
          /\ a_found \in SeqsUpTo([category : CheckedCategories,
                                    level : ComplianceLevels], MaxViolations)
    /\ ttl = 0
    /\ max_size = 0
    /\ InitCache
    /\ InitHarness
    /\ IdleThreads
    /\ IdleKey
    /\ IdleTool
    /\ IdleRetry
    /\ IdleOrch
    /\ IdleAudit
    /\ IdleMore

NextAnalyze == AnalyzeChange \/ CheckFile

SpecAnalyze == InitAnalyze /\ [][NextAnalyze]_vars

(***************************************************************************)
(* AuditTrailManager: log_session writes the session to table              *)
(* test_sessions (INSERT OR REPLACE on the primary key session_id) and     *)
(* logs a session-end event; get_session_history(limit) reads the table    *)
(* back, ORDER BY start_time DESC LIMIT limit.  Risk scores are in tenths, *)
(* their mean an exact fraction [n, d].                                    *)
(***************************************************************************)
SessionIds == 1..NumSessions

StartTimes == 1..MaxStart

\* What a session carries: variant v has v - 1 generated tests and risk
\* scores for v - 1 files.
SessionContent(v) ==
    [generated_tests |-> [i \in 1..(v - 1) |-> i],
     risk_scores |-> [i \in 1..(v - 1) |-> 3 * i]]

AllSessions ==
    {[session_id |-> id, start_time |-> st,
      generated_tests |-> SessionContent(v).generated_tests,
      risk_scores |-> SessionContent(v).risk_scores] :
        id \in SessionIds, st \in StartTimes, v \in 1..NumVariants}

\* The row log_session stores for a session.
session_row(session) ==
    [kind |-> "row",
     session_id |-> session.session_id,
     start_time |-> session.start_time,
     tests_generated |-> Len(session.generated_tests),
     overall_risk_score |->
        IF session.risk_scores = <<>> THEN [n |-> 0, d |-> 1]
        ELSE [n |-> SumSeq(session.risk_scores), d |-> Len(session.risk_scores)]]

log_session(session) ==
    /\ d_sessions' = [d_sessions EXCEPT ![session.session_id] = session_row(session)]
    /\ d_events' = d_events + 1

StoredRows == {d_sessions[id] : id \in DOMAIN d_sessions} \ {NoRow}

\* The results the query with the sort order reversed can give.
get_session_history_ascending(limit) ==
    LET k == Min(limit, Cardinality(StoredRows))
    IN {q \in [1..k -> StoredRows] :
          /\ \A i, j \in 1..k : i < j => (q[i] # q[j] /\ q[i].start_time <= q[j].start_time)
          /\ \A r \in StoredRows \ {q[i] : i \in 1..k} :
                \A i \in 1..k : r.start_time >= q[i].start_time}

\* The results the query can give: the limit rows with the latest start
\* times, latest first; rows with equal start times come in any order.
get_session_history(limit) ==
    LET k == Min(limit, Cardinality(StoredRows))
    IN {q \in [1..k -> StoredRows] :
          /\ \A i, j \in 1..k : i < j => (q[i] # q[j] /\ q[i].start_time >= q[j].start_time)
          /\ \A r \in StoredRows \ {q[i] : i \in 1..k} :
                \A i \in 1..k : r.start_time <= q[i].start_time}

AuditOthers ==
    <<cacheVars, harnessVars, threadVars, keyVars, toolVars, retryVars, orchVars,
      analyzeVars, moreVars>>

AuditLogSession(session) ==
    /\ d_events < MaxLogs
    /\ log_session(session)
    /\ d_last' = session
    /\ d_pc' = "logged"
    /\ UNCHANGED <<d_limit, d_history, AuditOthers>>

AuditGetSessionHistory(limit) ==
    /\ d_pc = "logged"
    /\ d_history' \in get_session_history(limit)
    /\ d_limit' = limit
    /\ d_pc' = "got"
    /\ UNCHANGED <<d_sessions, d_events, d_last, AuditOthers>>

InitAudit ==
    /\ d_sessions = [id \in SessionIds |-> NoRow]
    /\ d_events = 0
    /\ d_last = NoRow
    /\ d_pc = "start"
    /\ d_limit = 0
    /\ d_history = <<>>
    /\ ttl = 0
    /\ max_size = 0
    /\ InitCache
    /\ InitHarness
    /\ IdleThreads
    /\ IdleKey
    /\ IdleTool
    /\ IdleRetry
    /\ IdleOrch
    /\ IdleAnalyze
    /\ IdleMore

NextAudit ==
    \/ \E session \in AllSessions : AuditLogSession(session)
    \/ \E limit \in 1..MaxLimit : AuditGetSessionHistory(limit)

SpecAudit == InitAudit /\ [][NextAudit]_vars

\* Every variable of the server's cache, key, tool and retry parts at rest.
IdleProduct ==
    /\ ttl = 0
    /\ max_size = 0
    /\ InitCache
    /\ InitHarness
    /\ IdleThreads
    /\ IdleKey
    /\ IdleTool
    /\ IdleRetry

\* ---- frames: for each part, the variables and idle values of the others ----
EventOthers ==
    <<cacheVars, harnessVars, threadVars, keyVars, toolVars, retryVars,
      orchVars, analyzeVars, auditVars, storeVars, serverVars, parseVars,
      sanitizeVars, validatorVars, detectVars, phaseVars, idVars, cycleVars,
      scanVars, lockVars, configVars, trendVars>>

EventRest ==
    /\ IdleProduct
    /\ IdleOrch /\ IdleAnalyze /\ IdleAudit
    /\ IdleStore
    /\ IdleServer
    /\ IdleParse
    /\ IdleSanitize
    /\ IdleValidator
    /\ IdleDetect
    /\ IdlePhases
    /\ IdleIds
    /\ IdleCycle
    /\ IdleScan
    /\ IdleLock
    /\ IdleConfig
    /\ IdleTrends

StoreOthers ==
    <<cacheVars, harnessVars, threadVars, keyVars, toolVars, retryVars,
      orchVars, analyzeVars, auditVars, eventVars, serverVars, parseVars,
      sanitizeVars, validatorVars, detectVars, phaseVars, idVars, cycleVars,
      scanVars, lockVars, configVars, trendVars>>

StoreRest ==
    /\ IdleProduct
    /\ IdleOrch /\ IdleAnalyze /\ IdleAudit
    /\ IdleEvents
    /\ IdleServer
    /\ IdleParse
    /\ IdleSanitize
    /\ IdleValidator
    /\ IdleDetect
    /\ IdlePhases
    /\ IdleIds
    /\ IdleCycle
    /\ IdleScan
    /\ IdleLock
    /\ IdleConfig
    /\ IdleTrends

ServerOthers ==
    <<cacheVars, harnessVars, threadVars, keyVars, toolVars, retryVars,
      orchVars, analyzeVars, auditVars, eventVars, storeVars, parseVars,
      sanitizeVars, validatorVars, detectVars, phaseVars, idVars, cycleVars,
      scanVars, lockVars, configVars, trendVars>>

ServerRest ==
    /\ IdleProduct
    /\ IdleOrch /\ IdleAnalyze /\ IdleAudit
    /\ IdleEvents
    /\ IdleStore
    /\ IdleParse
    /\ IdleSanitize
    /\ IdleValidator
    /\ IdleDetect
    /\ IdlePhases
    /\ IdleIds
    /\ IdleCycle
    /\ IdleScan
    /\ IdleLock
    /\ IdleConfig
    /\ IdleTrends

ParseOthers ==
    <<cacheVars, harnessVars, threadVars, keyVars, toolVars, retryVars,
      orchVars, analyzeVars, auditVars, eventVars, storeVars, serverVars,
      sanitizeVars, validatorVars, detectVars, phaseVars, idVars, cycleVars,
      scanVars, lockVars, configVars, trendVars>>

ParseRest ==
    /\ IdleProduct
    /\ IdleOrch /\ IdleAnalyze /\ IdleAudit
    /\ IdleEvents
    /\ IdleStore
    /\ IdleServer
    /\ IdleSanitize
    /\ IdleValidator
    /\ IdleDetect
    /\ IdlePhases
    /\ IdleIds
    /\ IdleCycle
    /\ IdleScan
    /\ IdleLock
    /\ IdleConfig
    /\ IdleTrends

SanitizeOthers ==
    <<cacheVars, harnessVars, threadVars, keyVars, toolVars, retryVars,
      orchVars, analyzeVars, auditVars, eventVars, storeVars, serverVars,
      parseVars, validatorVars, detectVars, phaseVars, idVars, cycleVars,
      scanVars, lockVars, configVars, trendVars>>

SanitizeRest ==
    /\ IdleProduct
    /\ IdleOrch /\ IdleAnalyze /\ IdleAudit
    /\ IdleEvents
    /\ IdleStore
    /\ IdleServer
    /\ IdleParse
    /\ IdleValidator
    /\ IdleDetect
    /\ IdlePhases
    /\ IdleIds
    /\ IdleCycle
    /\ IdleScan
    /\ IdleLock
    /\ IdleConfig
    /\ IdleTrends

ValidatorOthers ==
    <<cacheVars, harnessVars, threadVars, keyVars, toolVars, retryVars,
      orchVars, analyzeVars, auditVars, eventVars, storeVars, serverVars,
      parseVars, sanitizeVars, detectVars, phaseVars, idVars, cycleVars,
      scanVars, lockVars, configVars, trendVars>>

ValidatorRest ==
    /\ IdleProduct
    /\ IdleOrch /\ IdleAnalyze /\ IdleAudit
    /\ IdleEvents
    /\ IdleStore
    /\ IdleServer
    /\ IdleParse
    /\ IdleSanitize
    /\ IdleDetect
    /\ IdlePhases
    /\ IdleIds
    /\ IdleCycle
    /\ IdleScan
    /\ IdleLock
    /\ IdleConfig
    /\ IdleTrends

DetectOthers ==
    <<cacheVars, harnessVars, threadVars, keyVars, toolVars, retryVars,
      orchVars, analyzeVars, auditVars, eventVars, storeVars, serverVars,
      parseVars, sanitizeVars, validatorVars, phaseVars, idVars, cycleVars,
      scanVars, lockVars, configVars, trendVars>>

DetectRest ==
    /\ IdleProduct
    /\ IdleOrch /\ IdleAnalyze /\ IdleAudit
    /\ IdleEvents
    /\ IdleStore
    /\ IdleServer
    /\ IdleParse
    /\ IdleSanitize
    /\ IdleValidator
    /\ IdlePhases
    /\ IdleIds
    /\ IdleCycle
    /\ IdleScan
    /\ IdleLock
    /\ IdleConfig
    /\ IdleTrends

PhaseOthers ==
    <<cacheVars, harnessVars, threadVars, keyVars, toolVars, retryVars,
      orchVars, analyzeVars, auditVars, eventVars, storeVars, serverVars,
      parseVars, sanitizeVars, validatorVars, detectVars, idVars, cycleVars,
      scanVars, lockVars, configVars, trendVars>>

PhaseRest ==
    /\ IdleProduct
    /\ IdleOrch /\ IdleAnalyze /\ IdleAudit
    /\ IdleEvents
    /\ IdleStore
    /\ IdleServer
    /\ IdleParse
    /\ IdleSanitize
    /\ IdleValidator
    /\ IdleDetect
    /\ IdleIds
    /\ IdleCycle
    /\ IdleScan
    /\ IdleLock
    /\ IdleConfig
    /\ IdleTrends

IdOthers ==
    <<cacheVars, harnessVars, threadVars, keyVars, toolVars, retryVars,
      orchVars, analyzeVars, auditVars, eventVars, storeVars, serverVars,
      parseVars, sanitizeVars, validatorVars, detectVars, phaseVars,
      cycleVars, scanVars, lockVars, configVars, trendVars>>

IdRest ==
    /\ IdleProduct
    /\ IdleOrch /\ IdleAnalyze /\ IdleAudit
    /\ IdleEvents
    /\ IdleStore
    /\ IdleServer
    /\ IdleParse
    /\ IdleSanitize
    /\ IdleValidator
    /\ IdleDetect
    /\ IdlePhases
    /\ IdleCycle
    /\ IdleScan
    /\ IdleLock
    /\ IdleConfig
    /\ IdleTrends

CycleOthers ==
    <<cacheVars, harnessVars, threadVars, keyVars, toolVars, retryVars,
      orchVars, analyzeVars, auditVars, eventVars, storeVars, serverVars,
      parseVars, sanitizeVars, validatorVars, detectVars, phaseVars, idVars,
      scanVars, lockVars, configVars, trendVars>>

CycleRest ==
    /\ IdleProduct
    /\ IdleOrch /\ IdleAnalyze /\ IdleAudit
    /\ IdleEvents
    /\ IdleStore
    /\ IdleServer
    /\ IdleParse
    /\ IdleSanitize
    /\ IdleValidator
    /\ IdleDetect
    /\ IdlePhases
    /\ IdleIds
    /\ IdleScan
    /\ IdleLock
    /\ IdleConfig
    /\ IdleTrends

ScanOthers ==
    <<cacheVars, harnessVars, threadVars, keyVars, toolVars, retryVars,
      orchVars, analyzeVars, auditVars, eventVars, storeVars, serverVars,
      parseVars, sanitizeVars, validatorVars, detectVars, phaseVars, idVars,
      cycleVars, lockVars, configVars, trendVars>>

ScanRest ==
    /\ IdleProduct
    /\ IdleOrch /\ IdleAnalyze /\ IdleAudit
    /\ IdleEvents
    /\ IdleStore
    /\ IdleServer
    /\ IdleParse
    /\ IdleSanitize
    /\ IdleValidator
    /\ IdleDetect
    /\ IdlePhases
    /\ IdleIds
    /\ IdleCycle
    /\ IdleLock
    /\ IdleConfig
    /\ IdleTrends

LockOthers ==
    <<cacheVars, harnessVars, threadVars, keyVars, toolVars, retryVars,
      orchVars, analyzeVars, auditVars, eventVars, storeVars, serverVars,
      parseVars, sanitizeVars, validatorVars, detectVars, phaseVars, idVars,
      cycleVars, scanVars, configVars, trendVars>>

LockRest ==
    /\ IdleProduct
    /\ IdleOrch /\ IdleAnalyze /\ IdleAudit
    /\ IdleEvents
    /\ IdleStore
    /\ IdleServer
    /\ IdleParse
    /\ IdleSanitize
    /\ IdleValidator
    /\ IdleDetect
    /\ IdlePhases
    /\ IdleIds
    /\ IdleCycle
    /\ IdleScan
    /\ IdleConfig
    /\ IdleTrends

ConfigOthers ==
    <<cacheVars, harnessVars, threadVars, keyVars, toolVars, retryVars,
      orchVars, analyzeVars, auditVars, eventVars, storeVars, serverVars,
      parseVars, sanitizeVars, validatorVars, detectVars, phaseVars, idVars,
      cycleVars, scanVars, lockVars, trendVars>>

ConfigRest ==
    /\ IdleProduct
    /\ IdleOrch /\ IdleAnalyze /\ IdleAudit
    /\ IdleEvents
    /\ IdleStore
    /\ IdleServer
    /\ IdleParse
    /\ IdleSanitize
    /\ IdleValidator
    /\ IdleDetect
    /\ IdlePhases
    /\ IdleIds
    /\ IdleCycle
    /\ IdleScan
    /\ IdleLock
    /\ IdleTrends

TrendOthers ==
    <<cacheVars, harnessVars, threadVars, keyVars, toolVars, retryVars,
      orchVars, analyzeVars, auditVars, eventVars, storeVars, serverVars,
      parseVars, sanitizeVars, validatorVars, detectVars, phaseVars, idVars,
      cycleVars, scanVars, lockVars, configVars>>

TrendRest ==
    /\ IdleProduct
    /\ IdleOrch /\ IdleAnalyze /\ IdleAudit
    /\ IdleEvents
    /\ IdleStore
    /\ IdleServer
    /\ IdleParse
    /\ IdleSanitize
    /\ IdleValidator
    /\ IdleDetect
    /\ IdlePhases
    /\ IdleIds
    /\ IdleCycle
    /\ IdleScan
    /\ IdleLock
    /\ IdleConfig

\* ---- end of frames ----

(***************************************************************************)
(* AuditTrailManager, construction and log_event.  The constructor         *)
(* schedules _initialize_databases as a task and returns; the task sets up *)
(* the audit, compliance and metrics databases in that order, interleaved  *)
(* with whatever the caller does next.  An operation on a database whose   *)
(* tables are not there yet fails with sqlite's "no such table".           *)
(***************************************************************************)
EventTypes == 1..NumEventTypes

\* The databases in the order _initialize_databases sets them up.
audit_db == 1

compliance_db == 2

metrics_db == 3

tables_exist(database) == e_tables >= database

\* _append_to_json_log without its try/except.
append_to_json_log_raising(event_id, outcome) ==
    IF outcome = "ok"
    THEN [backup |-> Append(e_backup, event_id), raised |-> FALSE]
    ELSE [backup |-> e_backup, raised |-> TRUE]

\* _append_to_json_log: any Exception of the write is logged and dropped.
append_to_json_log(event_id, outcome) ==
    IF outcome = "ok"
    THEN [backup |-> Append(e_backup, event_id), raised |-> FALSE]
    ELSE [backup |-> e_backup, raised |-> FALSE]

\* _store_event: INSERT INTO audit_events and commit, or the error raised.
store_event(event, outcome) ==
    IF ~tables_exist(audit_db) THEN [events |-> e_events, error |-> "no such table"]
    ELSE IF outcome = "raise" THEN [events |-> e_events, error |-> "database error"]
    ELSE [events |-> Append(e_events, event), error |-> "none"]

log_event(event_type, store_outcome, append_outcome) ==
    LET event_id == e_calls + 1
        event == [event_id |-> event_id, event_type |-> event_type]
        stored == store_event(event, store_outcome)
        appended == append_to_json_log(event_id, append_outcome)
    IN /\ e_calls' = event_id
       /\ e_events' = stored.events
       /\ IF stored.error # "none"
          THEN /\ e_backup' = e_backup
               /\ e_ret' = [op |-> "log_event", kind |-> "raised", error |-> stored.error,
                            store |-> "raise", append |-> "none"]
          ELSE /\ e_backup' = appended.backup
               /\ e_ret' = IF appended.raised
                           THEN [op |-> "log_event", kind |-> "raised",
                                 error |-> "write error", store |-> "ok",
                                 append |-> append_outcome]
                           ELSE [op |-> "log_event", kind |-> "returned",
                                 event_id |-> event_id, store |-> "ok",
                                 append |-> append_outcome]

\* A query: it reads its database and changes nothing.
query(op, database) ==
    e_ret' = IF tables_exist(database)
             THEN [op |-> op, kind |-> "returned"]
             ELSE [op |-> op, kind |-> "raised", error |-> "no such table"]

Construct ==
    /\ e_pc = "new"
    /\ e_pc' = "constructed"
    /\ UNCHANGED <<e_tables, e_calls, e_events, e_backup, e_ret, EventOthers>>

\* One step of the task: _create_audit_tables, _create_compliance_tables or
\* _create_metrics_tables.
InitializeDatabases ==
    /\ e_pc = "constructed"
    /\ e_tables < metrics_db
    /\ e_tables' = e_tables + 1
    /\ UNCHANGED <<e_pc, e_calls, e_events, e_backup, e_ret, EventOthers>>

LogEvent(event_type, store_outcome, append_outcome) ==
    /\ e_pc = "constructed"
    /\ e_calls < MaxEvents
    /\ log_event(event_type, store_outcome, append_outcome)
    /\ UNCHANGED <<e_pc, e_tables, EventOthers>>

GetComplianceViolations ==
    /\ e_pc = "constructed"
    /\ query("get_compliance_violations", compliance_db)
    /\ UNCHANGED <<e_pc, e_tables, e_calls, e_events, e_backup, EventOthers>>

GetQualityTrends ==
    /\ e_pc = "constructed"
    /\ query("get_quality_trends", metrics_db)
    /\ UNCHANGED <<e_pc, e_tables, e_calls, e_events, e_backup, EventOthers>>

InitEvents ==
    /\ e_pc = "new"
    /\ e_tables = 0
    /\ e_calls = 0
    /\ e_events = <<>>
    /\ e_backup = <<>>
    /\ e_ret = NoCall
    /\ EventRest

NextEvents ==
    \/ Construct
    \/ InitializeDatabases
    \/ \E event_type \in EventTypes, store_outcome, append_outcome \in {"ok", "raise"} :
          LogEvent(event_type, store_outcome, append_outcome)
    \/ GetComplianceViolations
    \/ GetQualityTrends

SpecEvents == InitEvents /\ [][NextEvents]_vars

(***************************************************************************)
(* AsyncSQLiteManager, the analytics store.  Every operation runs on the   *)
(* connection: its statements change what the connection sees (s_work),    *)
(* commit makes that the committed content (s_db), rollback throws the     *)
(* uncommitted changes away.  A statement or the commit can fail.          *)
(***************************************************************************)
OpportunityIds == 1..NumOpps

CalculationVersions == {"3.0.0", "2.0.0"}

ScorePairs == OpportunityIds \X CalculationVersions

SearchSessionIds == 1..NumSearchSessions

EmptyDatabase ==
    [grant_scores |-> [p \in ScorePairs |-> <<>>],
     search_sessions |-> [id \in SearchSessionIds |-> <<>>]]

\* INSERT INTO grant_scores without OR REPLACE and without the UNIQUE
\* constraint: the row is added whatever is there.
insert_grant_score_plain(db, pair, score) ==
    [db EXCEPT !.grant_scores[pair] =
        Append(@, [overall_score |-> score, calculated_at |-> s_now])]

\* INSERT OR REPLACE INTO grant_scores under UNIQUE(opportunity_id,
\* calculation_version): the rows of the pair are deleted, then the row is
\* inserted.
insert_grant_score(db, pair, score) ==
    [db EXCEPT !.grant_scores[pair] =
        <<[overall_score |-> score, calculated_at |-> s_now]>>]

\* INSERT OR REPLACE INTO search_sessions under UNIQUE(session_id).
insert_search_session(db, id) ==
    [db EXCEPT !.search_sessions[id] =
        <<[total_opportunities |-> 0, session_start |-> s_now]>>]

\* UPDATE search_sessions SET ... WHERE session_id = id.
update_search_session(db, id, total) ==
    [db EXCEPT !.search_sessions[id] =
        [i \in DOMAIN @ |-> [@[i] EXCEPT !.total_opportunities = total]]]

\* DELETE FROM grant_scores WHERE calculated_at < cutoff.
delete_old_scores(db, cutoff) ==
    [db EXCEPT !.grant_scores =
        [p \in ScorePairs |-> SelectSeq(@[p], LAMBDA r : ~(r.calculated_at < cutoff))]]

\* DELETE FROM search_sessions WHERE session_start < cutoff.
delete_old_sessions(db, cutoff) ==
    [db EXCEPT !.search_sessions =
        [id \in SearchSessionIds |-> SelectSeq(@[id], LAMBDA r : ~(r.session_start < cutoff))]]

FailPoints == {"none", "execute", "commit"}

\* The pattern of _store, _create, _update and _set: one statement and a
\* commit inside try, rollback and return False on any Exception.
\* changed is the content after the statement.
guarded_write(op, changed, fail) ==
    /\ s_ops' = s_ops + 1
    /\ IF fail = "none"
       THEN /\ s_work' = changed
            /\ s_db' = changed
            /\ s_ret' = [op |-> op, failed |-> FALSE, kind |-> "returned", value |-> TRUE]
       ELSE /\ s_work' = s_db
            /\ s_db' = s_db
            /\ s_ret' = [op |-> op, failed |-> TRUE, kind |-> "returned", value |-> FALSE]

store_grant_score(opportunity_id, calculation_version, overall_score, fail) ==
    LET pair == <<opportunity_id, calculation_version>>
    IN /\ guarded_write("store_grant_score",
                        insert_grant_score(s_work, pair, overall_score), fail)
       /\ s_latest' = IF fail = "none"
                      THEN [s_latest EXCEPT ![pair] = overall_score]
                      ELSE s_latest

create_search_session(session_id, fail) ==
    /\ guarded_write("create_search_session", insert_search_session(s_work, session_id), fail)
    /\ s_latest' = s_latest

update_session_results(session_id, total_opportunities, fail) ==
    /\ guarded_write("update_session_results",
                     update_search_session(s_work, session_id, total_opportunities), fail)
    /\ s_latest' = s_latest

\* _cleanup: three DELETEs and a commit with no try around them.  failAt is
\* the statement that fails (1..3 the DELETEs, 4 the commit), 0 for none;
\* the third DELETE is on analytics_cache, which is not modelled.
cleanup_old_data(days_to_keep, failAt) ==
    LET cutoff == s_now - days_to_keep
        after1 == delete_old_scores(s_work, cutoff)
        after2 == delete_old_sessions(after1, cutoff)
    IN /\ s_ops' = s_ops + 1
       /\ s_latest' = s_latest
       /\ IF failAt = 0
          THEN /\ s_work' = after2
               /\ s_db' = after2
               /\ s_ret' = [op |-> "cleanup_old_data", failed |-> FALSE,
                            kind |-> "returned", value |-> TRUE]
          ELSE /\ s_work' = IF failAt = 1 THEN s_work
                            ELSE IF failAt = 2 THEN after1 ELSE after2
               /\ s_db' = s_db
               /\ s_ret' = [op |-> "cleanup_old_data", failed |-> TRUE,
                            kind |-> "raised", value |-> FALSE]

StoreGrantScore(opportunity_id, calculation_version, overall_score, fail) ==
    /\ s_ops < MaxStoreOps
    /\ store_grant_score(opportunity_id, calculation_version, overall_score, fail)
    /\ UNCHANGED <<s_now, StoreOthers>>

CreateSearchSession(session_id, fail) ==
    /\ s_ops < MaxStoreOps
    /\ create_search_session(session_id, fail)
    /\ UNCHANGED <<s_now, StoreOthers>>

UpdateSessionResults(session_id, fail) ==
    /\ s_ops < MaxStoreOps
    /\ update_session_results(session_id, 1, fail)
    /\ UNCHANGED <<s_now, StoreOthers>>

CleanupOldData(days_to_keep, failAt) ==
    /\ s_ops < MaxStoreOps
    /\ cleanup_old_data(days_to_keep, failAt)
    /\ UNCHANGED <<s_now, StoreOthers>>

StoreTick ==
    /\ s_now < MaxClock
    /\ s_now' = s_now + 1
    /\ UNCHANGED <<s_db, s_work, s_ops, s_ret, s_latest, StoreOthers>>

InitStore ==
    /\ s_db = EmptyDatabase
    /\ s_work = EmptyDatabase
    /\ s_now = 0
    /\ s_ops = 0
    /\ s_ret = NoCall
    /\ s_latest = [p \in ScorePairs |-> None]
    /\ StoreRest

NextStore ==
    \/ \E o \in OpportunityIds, v \in CalculationVersions, sc \in 1..NumScores,
          fail \in FailPoints : StoreGrantScore(o, v, sc, fail)
    \/ \E id \in SearchSessionIds, fail \in FailPoints : CreateSearchSession(id, fail)
    \/ \E id \in SearchSessionIds, fail \in FailPoints : UpdateSessionResults(id, fail)
    \/ \E days \in 0..1, failAt \in 0..4 : CleanupOldData(days, failAt)
    \/ StoreTick

SpecStore == InitStore /\ [][NextStore]_vars

(***************************************************************************)
(* The process entry point (main.py) and the two run variants of           *)
(* GrantsAnalysisServer.  main reads the environment, builds Settings,     *)
(* constructs the server and calls run_sync; run_sync and run can also be  *)
(* called directly on a constructed server.                                *)
(***************************************************************************)
Environments ==
    [API_KEY : BOOLEAN, SIMPLER_GRANTS_API_KEY : BOOLEAN,
     CACHE_TTL : {"unset", "positive", "zero", "not a number"}]

\* sys.exit(0) for an interrupt answered the other way round.
exit_code_interrupt_fatal(reason) ==
    IF reason \in {"interrupt", "no_key"} THEN 1 ELSE 0

\* The exit code main ends with: sys.exit(1) without a key, sys.exit(0) on
\* KeyboardInterrupt, sys.exit(1) on any other Exception, and 0 when main
\* returns.
exit_code(reason) ==
    IF reason \in {"no_key", "error"} THEN 1 ELSE 0

main_exits(reason) ==
    /\ g_pc' = "done"
    /\ g_reason' = reason
    /\ g_exit' = exit_code(reason)

\* load_dotenv and the two getenv calls.
main_load_env ==
    IF ~(g_env.API_KEY \/ g_env.SIMPLER_GRANTS_API_KEY)
    THEN main_exits("no_key")
    ELSE /\ g_pc' = "settings"
         /\ UNCHANGED <<g_reason, g_exit>>

\* Settings(...): int(os.getenv("CACHE_TTL", "300")) can raise ValueError.
main_settings(interrupted) ==
    IF interrupted THEN main_exits("interrupt")
    ELSE IF g_env.CACHE_TTL = "not a number" THEN main_exits("error")
    ELSE /\ g_pc' = "construct"
         /\ UNCHANGED <<g_reason, g_exit>>

\* Settings.validate, as far as the environment decides it.
validate(env) ==
    /\ env.API_KEY \/ env.SIMPLER_GRANTS_API_KEY
    /\ env.CACHE_TTL # "zero"

\* GrantsAnalysisServer(settings).
main_construct(interrupted) ==
    IF interrupted THEN main_exits("interrupt") /\ g_server' = FALSE
    ELSE IF ~validate(g_env) THEN main_exits("error") /\ g_server' = FALSE
    ELSE /\ g_pc' = "running"
         /\ g_server' = TRUE
         /\ UNCHANGED <<g_reason, g_exit>>

StopReasons == {"return", "error", "interrupt"}

\* self.mcp.run() ends: it returns, raises an Exception (logged and
\* re-raised), or raises KeyboardInterrupt.
server_stops(reason) ==
    /\ g_pc' = "cleanup"
    /\ g_reason' = reason

LoopStates == {"running", "idle", "none"}

\* The finally block of run_sync.  loop is what asyncio.get_event_loop()
\* gives: a running loop, a loop that is not running, or RuntimeError
\* because the thread has no current loop.  Everything it raises is
\* swallowed by the bare except.
run_sync_cleanup(loop, close_outcome) ==
    /\ g_close' = IF loop = "none" THEN "not attempted"
                  ELSE IF loop = "running" THEN "scheduled"
                  ELSE IF close_outcome = "ok" THEN "closed" ELSE "failed"
    /\ g_out' = g_reason

\* The finally block of run: await self.api_client.close(), unguarded.
run_cleanup(close_outcome) ==
    /\ g_close' = IF close_outcome = "ok" THEN "closed" ELSE "failed"
    /\ g_out' = IF close_outcome = "ok" THEN g_reason ELSE "close_error"

MainLoadEnv ==
    /\ g_entry = "main"
    /\ g_pc = "start"
    /\ main_load_env
    /\ UNCHANGED <<g_entry, g_env, g_server, g_close, g_out, ServerOthers>>

MainSettings(interrupted) ==
    /\ g_entry = "main"
    /\ g_pc = "settings"
    /\ main_settings(interrupted)
    /\ UNCHANGED <<g_entry, g_env, g_server, g_close, g_out, ServerOthers>>

MainConstruct(interrupted) ==
    /\ g_entry = "main"
    /\ g_pc = "construct"
    /\ main_construct(interrupted)
    /\ UNCHANGED <<g_entry, g_env, g_close, g_out, ServerOthers>>

ServerStops(reason) ==
    /\ g_pc = "running"
    /\ server_stops(reason)
    /\ UNCHANGED <<g_entry, g_env, g_server, g_close, g_out, g_exit, ServerOthers>>

RunSyncCleanup(loop, close_outcome) ==
    /\ g_entry \in {"main", "run_sync"}
    /\ g_pc = "cleanup"
    /\ run_sync_cleanup(loop, close_outcome)
    /\ g_pc' = "done"
    /\ g_exit' = IF g_entry = "main" THEN exit_code(g_reason) ELSE g_exit
    /\ UNCHANGED <<g_entry, g_env, g_server, g_reason, ServerOthers>>

RunCleanup(close_outcome) ==
    /\ g_entry = "run"
    /\ g_pc = "cleanup"
    /\ run_cleanup(close_outcome)
    /\ g_pc' = "done"
    /\ UNCHANGED <<g_entry, g_env, g_server, g_reason, g_exit, ServerOthers>>

InitServer ==
    /\ g_entry \in {"main", "run_sync", "run"}
    /\ g_env \in Environments
    /\ g_pc = IF g_entry = "main" THEN "start" ELSE "running"
    /\ g_server = (g_entry # "main")
    /\ g_entry # "main" => validate(g_env)
    /\ g_reason = "none"
    /\ g_close = "none"
    /\ g_out = "none"
    /\ g_exit = -1
    /\ ServerRest

NextServer ==
    \/ MainLoadEnv
    \/ \E interrupted \in BOOLEAN : MainSettings(interrupted)
    \/ \E interrupted \in BOOLEAN : MainConstruct(interrupted)
    \/ \E reason \in StopReasons : ServerStops(reason)
    \/ \E loop \in LoopStates, close_outcome \in {"ok", "raise"} :
          RunSyncCleanup(loop, close_outcome)
    \/ \E close_outcome \in {"ok", "raise"} : RunCleanup(close_outcome)

SpecServer == InitServer /\ [][NextServer]_vars

(***************************************************************************)
(* GrantsAPIResponse.get_opportunities: every item of data is given to     *)
(* the constructor of OpportunityV1; an item any required field of which is *)
(* missing fails validation.                                               *)
(***************************************************************************)
RequiredFields ==
    {"opportunity_id", "opportunity_number", "opportunity_title", "opportunity_status",
     "agency", "agency_code", "agency_name", "summary"}

\* The items of a payload: complete, or with one required field missing.
Items ==
    {[id |-> i, fields |-> fs] :
        i \in 1..NumRecordIds,
        fs \in {RequiredFields} \cup {RequiredFields \ {f} : f \in RequiredFields}}

\* The constructor called on an item: the model, or the validation error.
OpportunityV1(item) ==
    IF RequiredFields \subseteq item.fields
    THEN [ok |-> TRUE, model |-> [opportunity_id |-> item.id]]
    ELSE [ok |-> FALSE, model |-> [opportunity_id |-> 0]]

RECURSIVE get_opportunities_failfast(_)
\* The loop without its try/except: the first item that fails ends it.
get_opportunities_failfast(data) ==
    IF data = <<>> THEN [kind |-> "returned", opportunities |-> <<>>]
    ELSE LET parsed == OpportunityV1(Head(data))
             rest == get_opportunities_failfast(Tail(data))
         IN IF ~parsed.ok \/ rest.kind = "raised"
            THEN [kind |-> "raised", opportunities |-> <<>>]
            ELSE [kind |-> "returned",
                  opportunities |-> <<parsed.model>> \o rest.opportunities]

RECURSIVE get_opportunities(_)
\* for item in self.data: try append the model of item, except print.
get_opportunities(data) ==
    IF data = <<>> THEN [kind |-> "returned", opportunities |-> <<>>]
    ELSE LET parsed == OpportunityV1(Head(data))
             rest == get_opportunities(Tail(data))
         IN [kind |-> "returned",
             opportunities |-> (IF parsed.ok THEN <<parsed.model>> ELSE <<>>)
                                  \o rest.opportunities]

GetOpportunities ==
    /\ p_pc = "call"
    /\ p_out' = get_opportunities(p_data)
    /\ p_pc' = "done"
    /\ UNCHANGED <<p_data, ParseOthers>>

InitParse ==
    /\ p_data \in SeqsUpTo(Items, MaxRecords)
    /\ p_pc = "call"
    /\ p_out = NoCall
    /\ ParseRest

NextParse == GetOpportunities

SpecParse == InitParse /\ [][NextParse]_vars

(***************************************************************************)
(* sanitize_error_message.  A message is a sequence of symbols: a key (a   *)
(* token word, in lower or upper case, directly followed by = or :), a     *)
(* bare token word, a whitespace character, an ampersand, or an ordinary   *)
(* character.  The function applies, for each token in turn, the           *)
(* substitution of   token [=:] \s* [^\s&]+   by   token = placeholder.     *)
(***************************************************************************)
sensitive_patterns ==
    <<"api_key", "apikey", "password", "token", "secret", "auth", "bearer">>

Key(tok, upper, sep) == [kind |-> "key", tok |-> tok, upper |-> upper, sep |-> sep]

Word(tok) == [kind |-> "word", tok |-> tok, upper |-> FALSE, sep |-> ""]

Space == [kind |-> "space", tok |-> "", upper |-> FALSE, sep |-> ""]

Amp == [kind |-> "amp", tok |-> "", upper |-> FALSE, sep |-> ""]

Char == [kind |-> "char", tok |-> "", upper |-> FALSE, sep |-> ""]

Placeholder(tok) == [kind |-> "placeholder", tok |-> tok, upper |-> TRUE, sep |-> ""]

\* The symbols messages are drawn from.
Symbols ==
    {Key("token", FALSE, ":"), Key("token", TRUE, "="), Key("secret", FALSE, ":"),
     Word("secret"), Space, Amp, Char}

\* s without its first n symbols.
Drop(s, n) == SubSeq(s, n + 1, Len(s))

IsSpace(sym) == sym.kind = "space"

\* [^\s&]
IsValueSymbol(sym) == sym.kind \notin {"space", "amp"}

\* \s*: how many whitespace symbols s starts with.
RECURSIVE LeadingSpaces(_)
LeadingSpaces(s) ==
    IF s # <<>> /\ IsSpace(Head(s)) THEN 1 + LeadingSpaces(Tail(s)) ELSE 0

\* [^\s&]+: how many symbols of a value s starts with.
RECURSIVE LeadingValue(_)
LeadingValue(s) ==
    IF s # <<>> /\ IsValueSymbol(Head(s)) THEN 1 + LeadingValue(Tail(s)) ELSE 0

\* re.sub(pattern [=:] \s* [^\s&]+, pattern = placeholder, s, IGNORECASE):
\* the matches are found left to right and do not overlap.
RECURSIVE sub(_, _)
sub(pattern, s) ==
    IF s = <<>> THEN <<>>
    ELSE LET after == Drop(Tail(s), LeadingSpaces(Tail(s)))
             run == LeadingValue(after)
         IN IF Head(s).kind = "key" /\ Head(s).tok = pattern /\ run >= 1
            THEN <<Key(pattern, FALSE, "="), Placeholder(pattern)>>
                    \o sub(pattern, Drop(after, run))
            ELSE <<Head(s)>> \o sub(pattern, Tail(s))

\* The loop over sensitive_patterns, from pattern number i on.
RECURSIVE sanitize_from(_, _)
sanitize_from(i, s) ==
    IF i > Len(sensitive_patterns) THEN s
    ELSE sanitize_from(i + 1, sub(sensitive_patterns[i], s))

sanitize_error_message(message) == sanitize_from(1, message)

SanitizeErrorMessage ==
    /\ x_pc = "call"
    /\ x_out' = sanitize_error_message(x_text)
    /\ x_pc' = "done"
    /\ UNCHANGED <<x_text, SanitizeOthers>>

InitSanitize ==
    /\ x_text \in SeqsUpTo(Symbols, MaxText)
    /\ x_pc = "call"
    /\ x_out = <<>>
    /\ SanitizeRest

NextSanitize == SanitizeErrorMessage

SpecSanitize == InitSanitize /\ [][NextSanitize]_vars

(***************************************************************************)
(* scripts/validate_deployment.py.  main runs its validators in order,     *)
(* each inside try / except Exception, collects their errors, and returns  *)
(* 1 when any of them did not pass.  What a validator meets:               *)
(*   "ok"          everything it looks for is there;                       *)
(*   "missing"     its file is not there (for Git Status: not on main);    *)
(*   "bad_content" its file is there and lacks something required;        *)
(*   "raises"      an exception leaves the validator.                      *)
(***************************************************************************)
validators ==
    <<[name |-> "GitHub Workflow", kind |-> "file"],
      [name |-> "Dockerfile", kind |-> "file"],
      [name |-> "Server Health Endpoint", kind |-> "file"],
      [name |-> "Requirements", kind |-> "file"],
      [name |-> "Documentation", kind |-> "guarded"],
      [name |-> "Git Status", kind |-> "guarded"],
      [name |-> "Environment Template", kind |-> "file"]>>

Outcomes(kind) ==
    IF kind = "file" THEN {"ok", "missing", "bad_content", "raises"}
    ELSE {"ok", "missing", "raises"}

\* What a validator returns and prints.  The five validators that read a
\* file print their 'passed' line after the content checks whatever these
\* found; the other two print it only when there is no error.
validator(kind, outcome) ==
    [passed |-> outcome = "ok",
     errors |-> IF outcome = "ok" THEN 0 ELSE 1,
     printed |-> outcome = "ok" \/ (kind = "file" /\ outcome = "bad_content"),
     raised |-> outcome = "raises"]

\* One turn of the loop of main.
run_validator(outcome) ==
    LET v == validators[v_next]
        r == validator(v.kind, outcome)
    IN /\ v_outcome' = Append(v_outcome, outcome)
       /\ v_printed' = IF r.printed THEN v_printed \cup {v_next} ELSE v_printed
       /\ v_all_passed' = (v_all_passed /\ r.passed /\ ~r.raised)
       /\ v_all_errors' = IF r.raised \/ r.errors > 0
                          THEN Append(v_all_errors, v.name)
                          ELSE v_all_errors
       /\ v_next' = v_next + 1

RunValidator(outcome) ==
    /\ v_exit = -1
    /\ v_next <= Len(validators)
    /\ outcome \in Outcomes(validators[v_next].kind)
    /\ run_validator(outcome)
    /\ UNCHANGED <<v_exit, ValidatorOthers>>

\* After the loop: the summary and the return value given to sys.exit.
ValidatorExit ==
    /\ v_exit = -1
    /\ v_next > Len(validators)
    /\ v_exit' = IF v_all_passed THEN 0 ELSE 1
    /\ UNCHANGED <<v_next, v_outcome, v_printed, v_all_errors, v_all_passed,
                   ValidatorOthers>>

InitValidator ==
    /\ v_next = 1
    /\ v_outcome = <<>>
    /\ v_printed = {}
    /\ v_all_errors = <<>>
    /\ v_all_passed = TRUE
    /\ v_exit = -1
    /\ ValidatorRest

NextValidator ==
    \/ \E outcome \in {"ok", "missing", "bad_content", "raises"} : RunValidator(outcome)
    \/ ValidatorExit

SpecValidator == InitValidator /\ [][NextValidator]_vars

(***************************************************************************)
(* AdaptiveTestingOrchestrator._detect_code_changes.  monitored_files is a *)
(* dict, here the sequence of its items in dict order.  The first loop     *)
(* walks the dict and deletes the entry of a file that is gone; a dict     *)
(* that changed size makes the next step of the walk raise RuntimeError.   *)
(***************************************************************************)
Files == 1..NumFiles

Hashes == 1..NumHashes

MonitoredPaths(monitored) == {monitored[i].path : i \in DOMAIN monitored}

\* _create_change_event and the CodeChangeEvent built for a deleted file.
change_event(path, change_type) ==
    [file_path |-> path, change_type |-> change_type,
     test_requirements |-> IF change_type = "deleted" THEN <<"cleanup">>
                           ELSE IF change_type = "added" THEN <<"unit", "integration">>
                           ELSE <<"unit", "regression">>]

\* The files of S in glob order, as a sequence.
RECURSIVE InOrder(_)
InOrder(S) ==
    IF S = {} THEN <<>>
    ELSE LET least == CHOOSE x \in S : \A y \in S : x <= y
         IN <<least>> \o InOrder(S \ {least})

\* The first loop up to item n, when no item up to n is gone: the events
\* of the modified files and the items with their hashes brought up to date.
RECURSIVE check_existing(_, _, _)
check_existing(monitored, disk, n) ==
    IF n = 0 THEN [events |-> <<>>, monitored |-> <<>>]
    ELSE LET before == check_existing(monitored, disk, n - 1)
             item == monitored[n]
             new_hash == disk[item.path]
         IN [events |-> IF new_hash # item.hash
                        THEN Append(before.events, change_event(item.path, "modified"))
                        ELSE before.events,
             monitored |-> Append(before.monitored, [path |-> item.path, hash |-> new_hash])]

\* The second loop: the files on disk that are not monitored.
check_new(monitored, disk) ==
    LET new == InOrder({p \in Files : disk[p] # None /\ p \notin MonitoredPaths(monitored)})
    IN [events |-> [i \in DOMAIN new |-> change_event(new[i], "added")],
        monitored |-> monitored \o [i \in DOMAIN new |-> [path |-> new[i], hash |-> disk[new[i]]]]]

\* One scan: what it gives and what monitored_files is afterwards.
detect_changes(monitored, disk) ==
    LET gone == {i \in DOMAIN monitored : disk[monitored[i].path] = None}
    IN IF gone # {}
       THEN LET first == CHOOSE i \in gone : \A j \in gone : i <= j
                before == check_existing(monitored, disk, first - 1)
            IN [kind |-> "raised", events |-> <<>>,
                monitored |-> before.monitored
                                 \o SubSeq(monitored, first + 1, Len(monitored))]
       ELSE LET existing == check_existing(monitored, disk, Len(monitored))
                added == check_new(existing.monitored, disk)
            IN [kind |-> "returned", events |-> existing.events \o added.events,
                monitored |-> added.monitored]

DetectScan ==
    /\ f_pc = "changed"
    /\ LET r == detect_changes(f_monitored, f_disk)
       IN /\ f_result' = [kind |-> r.kind, events |-> r.events, before |-> f_monitored]
          /\ f_monitored' = r.monitored
    /\ f_pc' = "scanned"
    /\ UNCHANGED <<f_disk, DetectOthers>>

\* A file is written: created, or its content changed.
WriteFile(path, hash) ==
    /\ f_disk[path] # hash
    /\ f_disk' = [f_disk EXCEPT ![path] = hash]
    /\ f_pc' = "changed"
    /\ f_result' = NoCall
    /\ UNCHANGED <<f_monitored, DetectOthers>>

RemoveFile(path) ==
    /\ f_disk[path] # None
    /\ f_disk' = [f_disk EXCEPT ![path] = None]
    /\ f_pc' = "changed"
    /\ f_result' = NoCall
    /\ UNCHANGED <<f_monitored, DetectOthers>>

InitDetect ==
    /\ f_disk = [p \in Files |-> None]
    /\ f_monitored = <<>>
    /\ f_pc = "changed"
    /\ f_result = NoCall
    /\ DetectRest

NextDetect ==
    \/ DetectScan
    \/ \E path \in Files, hash \in Hashes : WriteFile(path, hash)
    \/ \E path \in Files : RemoveFile(path)

SpecDetect == InitDetect /\ [][NextDetect]_vars

(***************************************************************************)
(* AdaptiveTestingOrchestrator._generation_phase, _execution_phase and     *)
(* _optimization_phase on one session.  The session's changes and their    *)
(* risk scores are inputs; each awaited generate_tests call and the        *)
(* subprocess run either complete or raise.  Risk scores are in tenths.    *)
(***************************************************************************)
RiskScores == {0, 3}

ChangeTypes == {"added", "modified", "deleted"}

\* The changes a session can hold, as _create_change_event and the branch
\* for a deleted file build them (paths without a domain keyword).
SessionChanges ==
    {[change_type |-> t, risk |-> r,
      complexity_score |-> IF t = "deleted" THEN 0 ELSE base_complexity,
      test_requirements |-> change_event(0, t).test_requirements] :
        t \in ChangeTypes, r \in RiskScores}

calculate_test_priority(risk, complexity) ==
    LET risk_points == Min(risk * 5, 5 * 10)
        complexity_points == Min(complexity * 3, 3 * 10)
        total_priority == base_priority * 10 + risk_points + complexity_points
                             + business_points * 10
    IN Min(total_priority \div 10, 10)

\* test_requests: one request per change and requirement, in loop order.
RECURSIVE test_requests(_, _)
test_requests(changes, n) ==
    IF n = 0 THEN <<>>
    ELSE LET change == changes[n]
             priority == calculate_test_priority(change.risk, change.complexity_score)
         IN test_requests(changes, n - 1)
               \o [i \in DOMAIN change.test_requirements |->
                      [source_file |-> n,
                       test_category |-> change.test_requirements[i],
                       priority |-> priority]]

\* The requests in the order they were built.
sorted_requests_unsorted(requests) == requests

\* sorted(test_requests, key=lambda x: x.priority, reverse=True): a stable
\* sort, requests of equal priority keep their order.
RECURSIVE sorted_requests(_)
sorted_requests(requests) ==
    IF requests = <<>> THEN <<>>
    ELSE LET first == CHOOSE i \in DOMAIN requests :
                         \A j \in DOMAIN requests :
                            \/ requests[j].priority < requests[i].priority
                            \/ requests[j].priority = requests[i].priority /\ i <= j
         IN <<requests[first]>>
               \o sorted_requests(SubSeq(requests, 1, first - 1)
                                     \o SubSeq(requests, first + 1, Len(requests)))

SessionRequests == sorted_requests(test_requests(w_changes, Len(w_changes)))

\* What generate_tests can do for a request: raise, or return the paths of
\* the files it wrote: one suite for a file that exists, none for a deleted
\* file, whose analysis finds nothing to test.
generate_tests_outcome(request, kind) ==
    [kind |-> kind,
     files |-> IF kind = "ok" /\ request.test_category # "cleanup"
               THEN <<request>>
               ELSE <<>>]

\* The handler of the generation loop, with the error leaving the phase.
generation_handler_propagates == "raised"

\* except Exception as e: logger.error(...): the loop goes on.
generation_handler == "generation"

\* One iteration of the loop over the sorted requests; after the last one
\* the phase returns and the pipeline sets the phase to EXECUTION.
generate_tests(kind) ==
    /\ w_pc = "generation"
    /\ LET request == SessionRequests[Len(w_calls) + 1]
           outcome == generate_tests_outcome(request, kind)
           after == IF outcome.kind = "ok" THEN "generation" ELSE generation_handler
       IN /\ w_calls' = Append(w_calls, [request |-> request, outcome |-> outcome.kind,
                                         files |-> outcome.files])
          /\ w_generated' = IF outcome.kind = "ok"
                            THEN w_generated \o outcome.files
                            ELSE w_generated
          /\ w_pc' = IF after = "generation" /\ Len(w_calls) + 1 = Len(SessionRequests)
                     THEN "execution"
                     ELSE after
    /\ UNCHANGED <<w_changes, w_results, w_run>>

\* Exit statuses of the test runner; a negative one is the signal that
\* ended it.
ReturnCodes == {0, 1, -1}

completed_result(returncode, test_count) ==
    [return_code |-> returncode, stdout |-> "stdout", stderr |-> "stderr",
     test_count |-> test_count]

\* The timeout recorded with the fields of a completed run.
timeout_result_as_completed(test_count) ==
    [return_code |-> -1, stdout |-> "stdout", stderr |-> "stderr",
     test_count |-> test_count]

\* except subprocess.TimeoutExpired: session.execution_results = {...}
timeout_result(test_count) ==
    [return_code |-> -1, error |-> "Test execution timeout",
     test_count |-> test_count]

\* execution_results = {} of a new session.
NoResults == [f \in {} |-> 0]

\* _execution_phase; when it returns the pipeline sets the phase to
\* OPTIMIZATION.
execution_phase(outcome, returncode) ==
    /\ w_pc = "execution"
    /\ outcome # "completed" => returncode = 0
    /\ IF w_generated = <<>>
       THEN /\ outcome = "skipped"
            /\ w_results' = w_results
            /\ w_pc' = "optimization"
       ELSE CASE outcome = "completed" ->
                    /\ w_results' = completed_result(returncode, Len(w_generated))
                    /\ w_pc' = "optimization"
              [] outcome = "timeout" ->
                    /\ w_results' = timeout_result(Len(w_generated))
                    /\ w_pc' = "optimization"
              [] outcome = "raise" ->
                    /\ w_results' = w_results
                    /\ w_pc' = "raised"
              [] OTHER -> FALSE
    /\ w_run' = outcome
    /\ UNCHANGED <<w_changes, w_calls, w_generated>>

\* _optimization_phase: _analyze_test_results marks the results when the
\* runner's report file exists; log_optimization_results may raise.
optimization_phase(junit_exists, outcome) ==
    /\ w_pc = "optimization"
    /\ w_results' = IF "return_code" \in DOMAIN w_results /\ junit_exists
                    THEN [f \in DOMAIN w_results \cup {"junit_parsed"} |->
                             IF f = "junit_parsed" THEN TRUE ELSE w_results[f]]
                    ELSE w_results
    /\ w_pc' = IF outcome = "ok" THEN "done" ELSE "raised"
    /\ UNCHANGED <<w_changes, w_calls, w_generated, w_run>>

GenerateTests(kind) == generate_tests(kind) /\ UNCHANGED PhaseOthers

ExecutionPhase(outcome, returncode) ==
    execution_phase(outcome, returncode) /\ UNCHANGED PhaseOthers

OptimizationPhase(junit_exists, outcome) ==
    optimization_phase(junit_exists, outcome) /\ UNCHANGED PhaseOthers

\* A session after its discovery phase.
InitPhases ==
    /\ w_changes \in UNION {[1..n -> SessionChanges] : n \in 1..MaxChanges}
    /\ w_pc = "generation"
    /\ w_calls = <<>>
    /\ w_generated = <<>>
    /\ w_results = NoResults
    /\ w_run = "none"
    /\ PhaseRest

NextPhases ==
    \/ \E kind \in {"ok", "raise"} : GenerateTests(kind)
    \/ \E outcome \in {"skipped", "completed", "timeout", "raise"},
          returncode \in ReturnCodes :
          ExecutionPhase(outcome, returncode)
    \/ \E junit_exists \in BOOLEAN, outcome \in {"ok", "raise"} :
          OptimizationPhase(junit_exists, outcome)

SpecPhases == InitPhases /\ [][NextPhases]_vars

(***************************************************************************)
(* AuditTrailManager.log_event, the event id.  The id is the event type    *)
(* and the local time read from datetime.now(), to the microsecond; the    *)
(* read is synchronous, the insert that follows is awaited, so calls of    *)
(* several tasks interleave between the two.  Whether the clock has moved  *)
(* on between two reads is up to the platform's clock.                     *)
(***************************************************************************)
IdTasks == 1..NumTasks

Micros == 0..MaxMicros

\* f"{event_type.value}_{datetime.now().strftime('%Y%m%d_%H%M%S_%f')}": the
\* timestamp has a fixed width, so the id determines the type and the time.
event_id(event_type, micros) == <<event_type, micros>>

\* INSERT INTO audit_events: event_id is the table's primary key.
insert_event(table, id) ==
    IF id \in table
    THEN [table |-> table, error |-> "UNIQUE constraint failed"]
    ELSE [table |-> table \cup {id}, error |-> "none"]

\* log_event up to its first await: the id is assigned and the event built.
log_event_begin(task, event_type) ==
    /\ i_tasks[task] = 0
    /\ Len(i_calls) < MaxEvents
    /\ i_calls' = Append(i_calls, [event_type |-> event_type,
                                   event_id |-> event_id(event_type, i_clock),
                                   outcome |-> "pending"])
    /\ i_tasks' = [i_tasks EXCEPT ![task] = Len(i_calls) + 1]
    /\ UNCHANGED <<i_clock, i_table>>

\* await self._store_event(event): the insert commits, or its error leaves
\* log_event.
log_event_store(task) ==
    /\ i_tasks[task] # 0
    /\ LET call == i_tasks[task]
           inserted == insert_event(i_table, i_calls[call].event_id)
       IN /\ i_table' = inserted.table
          /\ i_calls' = [i_calls EXCEPT ![call].outcome =
                            IF inserted.error = "none" THEN "stored" ELSE "raised"]
    /\ i_tasks' = [i_tasks EXCEPT ![task] = 0]
    /\ UNCHANGED i_clock

\* The clock reaches the next microsecond.
clock_advances ==
    /\ i_clock < MaxMicros
    /\ i_clock' = i_clock + 1
    /\ UNCHANGED <<i_calls, i_tasks, i_table>>

LogEventBegin(task, event_type) == log_event_begin(task, event_type) /\ UNCHANGED IdOthers

LogEventStore(task) == log_event_store(task) /\ UNCHANGED IdOthers

ClockAdvances == clock_advances /\ UNCHANGED IdOthers

InitIds ==
    /\ i_clock = 0
    /\ i_calls = <<>>
    /\ i_tasks = [t \in IdTasks |-> 0]
    /\ i_table = {}
    /\ IdRest

NextIds ==
    \/ \E task \in IdTasks, event_type \in EventTypes : LogEventBegin(task, event_type)
    \/ \E task \in IdTasks : LogEventStore(task)
    \/ ClockAdvances

SpecIds == InitIds /\ [][NextIds]_vars

(***************************************************************************)
(* AdaptiveTestingOrchestrator._monitoring_cycle and the sessions it       *)
(* leaves behind: current_session, session_history, and in the audit       *)
(* trail the test_sessions table and the error events.  Session ids are    *)
(* the numbers of the cycles that started them, cycles being at least a    *)
(* monitoring interval apart.  What the scan finds is an input here.       *)
(***************************************************************************)
\* finally, left out: the session stays current.
cycle_finally_missing == c_current

\* finally: self.current_session = None
cycle_finally == None

\* changes = await self._detect_code_changes(); if changes: session =
\* await self._start_testing_session(changes)
cycle_detect(outcome) ==
    /\ c_pc = "detect"
    /\ CASE outcome = "no_changes" ->
               /\ c_pc' = "sleep"
               /\ c_outcome' = "no_changes"
               /\ c_current' = c_current
         [] outcome = "raise" ->
               /\ c_pc' = "sleep"
               /\ c_outcome' = "scan_raised"
               /\ c_current' = c_current
         [] outcome = "changes" ->
               /\ c_pc' = "pipeline"
               /\ c_outcome' = "running"
               /\ c_current' = c_cycles
    /\ UNCHANGED <<c_history, c_table, c_errors, c_cycles>>

\* await self._execute_testing_pipeline(session); on return the session is
\* completed and appended to session_history.
cycle_pipeline(outcome) ==
    /\ c_pc = "pipeline"
    /\ IF outcome = "ok"
       THEN /\ c_history' = Append(c_history, c_current)
            /\ c_pc' = "log_session"
       ELSE /\ c_history' = c_history
            /\ c_pc' = "log_error"
    /\ UNCHANGED <<c_current, c_table, c_errors, c_cycles, c_outcome>>

\* AuditTrailManager.log_session: INSERT OR REPLACE INTO test_sessions and
\* commit, then log_event(SESSION_END); either may raise.
log_session_rows(table, session_id, outcome) ==
    IF outcome = "insert_raises" THEN table ELSE table \cup {session_id}

\* await self.audit_manager.log_session(session), inside the try.
cycle_log_session(outcome) ==
    /\ c_pc = "log_session"
    /\ c_table' = log_session_rows(c_table, c_current, outcome)
    /\ IF outcome = "ok"
       THEN /\ c_pc' = "sleep"
            /\ c_outcome' = "completed"
            /\ c_current' = cycle_finally
       ELSE /\ c_pc' = "log_error"
            /\ UNCHANGED <<c_outcome, c_current>>
    /\ UNCHANGED <<c_history, c_errors, c_cycles>>

\* except Exception: await self.audit_manager.log_error(str(e),
\* session.session_id); an error of log_error leaves the cycle.
cycle_log_error(outcome) ==
    /\ c_pc = "log_error"
    /\ IF outcome = "ok"
       THEN /\ c_errors' = c_errors \cup {c_current}
            /\ c_outcome' = "error_logged"
       ELSE /\ c_errors' = c_errors
            /\ c_outcome' = "error_lost"
    /\ c_pc' = "sleep"
    /\ c_current' = cycle_finally
    /\ UNCHANGED <<c_history, c_table, c_cycles>>

\* The sleep of start_continuous_monitoring ends; the next cycle begins.
cycle_next ==
    /\ c_pc = "sleep"
    /\ c_cycles < MaxCycles
    /\ c_cycles' = c_cycles + 1
    /\ c_pc' = "detect"
    /\ UNCHANGED <<c_current, c_history, c_table, c_errors, c_outcome>>

get_status ==
    [monitoring_active |-> c_current # None,
     sessions_completed |-> Len(c_history),
     current_session |-> c_current]

CycleDetect(outcome) == cycle_detect(outcome) /\ UNCHANGED CycleOthers

CyclePipeline(outcome) == cycle_pipeline(outcome) /\ UNCHANGED CycleOthers

CycleLogSession(outcome) == cycle_log_session(outcome) /\ UNCHANGED CycleOthers

CycleLogError(outcome) == cycle_log_error(outcome) /\ UNCHANGED CycleOthers

CycleNext == cycle_next /\ UNCHANGED CycleOthers

\* The first cycle after _perform_initial_scan.
InitCycle ==
    /\ c_pc = "detect"
    /\ c_current = None
    /\ c_history = <<>>
    /\ c_table = {}
    /\ c_errors = {}
    /\ c_cycles = 1
    /\ c_outcome = "none"
    /\ CycleRest

NextSessions ==
    \/ \E outcome \in {"no_changes", "changes", "raise"} : CycleDetect(outcome)
    \/ \E outcome \in {"ok", "raise"} : CyclePipeline(outcome)
    \/ \E outcome \in {"ok", "insert_raises", "event_raises"} : CycleLogSession(outcome)
    \/ \E outcome \in {"ok", "raise"} : CycleLogError(outcome)
    \/ CycleNext

SpecCycle == InitCycle /\ [][NextSessions]_vars

(***************************************************************************)
(* The scans of successive monitoring cycles: _perform_initial_scan, then  *)
(* per cycle _detect_code_changes and, when it returns changes, the        *)
(* session _start_testing_session builds from them.  Source files change   *)
(* between the cycles, each file at most once between two scans.           *)
(***************************************************************************)
\* _perform_initial_scan: every source file is hashed into monitored_files.
perform_initial_scan(disk) == check_new(<<>>, disk).monitored

\* One cycle's scan; a scan that raises leaves the cycle, a scan that
\* returns changes starts a session that holds them.
scan_cycle ==
    /\ n_pc = "sleep"
    /\ LET r == detect_changes(n_monitored, n_disk)
       IN /\ n_scan' = [kind |-> r.kind, events |-> r.events, pending |-> n_pending]
          /\ n_monitored' = r.monitored
          /\ n_session' = IF r.kind = "returned" THEN r.events ELSE <<>>
          /\ n_pc' = IF r.kind = "returned" /\ r.events # <<>> THEN "session" ELSE "sleep"
    /\ n_pending' = {}
    /\ n_disk' = n_disk

\* The session's cycle ends.
scan_cycle_ends ==
    /\ n_pc = "session"
    /\ n_pc' = "sleep"
    /\ UNCHANGED <<n_disk, n_monitored, n_pending, n_scan, n_session>>

\* A source file is created or its content changes.
file_written(path, hash) ==
    /\ n_pc = "sleep"
    /\ path \notin n_pending
    /\ n_disk[path] # hash
    /\ n_disk' = [n_disk EXCEPT ![path] = hash]
    /\ n_pending' = n_pending \cup {path}
    /\ n_scan' = NoCall
    /\ n_session' = <<>>
    /\ UNCHANGED <<n_pc, n_monitored>>

\* A source file is deleted.
file_removed(path) ==
    /\ n_pc = "sleep"
    /\ path \notin n_pending
    /\ n_disk[path] # None
    /\ n_disk' = [n_disk EXCEPT ![path] = None]
    /\ n_pending' = n_pending \cup {path}
    /\ n_scan' = NoCall
    /\ n_session' = <<>>
    /\ UNCHANGED <<n_pc, n_monitored>>

ScanCycle == scan_cycle /\ UNCHANGED ScanOthers

ScanCycleEnds == scan_cycle_ends /\ UNCHANGED ScanOthers

FileWritten(path, hash) == file_written(path, hash) /\ UNCHANGED ScanOthers

FileRemoved(path) == file_removed(path) /\ UNCHANGED ScanOthers

InitScan ==
    /\ n_disk \in [Files -> {None} \cup Hashes]
    /\ n_monitored = perform_initial_scan(n_disk)
    /\ n_pending = {}
    /\ n_pc = "sleep"
    /\ n_scan = NoCall
    /\ n_session = <<>>
    /\ ScanRest

NextScan ==
    \/ ScanCycle
    \/ ScanCycleEnds
    \/ \E path \in Files, hash \in Hashes : FileWritten(path, hash)
    \/ \E path \in Files : FileRemoved(path)

SpecScan == InitScan /\ [][NextScan]_vars

(***************************************************************************)
(* AsyncSQLiteManager.get_analytics_cache and set_analytics_cache on the   *)
(* thread-local connections of the executor's worker threads.  A           *)
(* connection of the sqlite3 module opens a transaction before a DELETE,   *)
(* INSERT or UPDATE and keeps it, with the database's write lock, until    *)
(* commit or rollback; a statement that needs the lock while another       *)
(* connection holds it fails with "database is locked" once the            *)
(* connection's timeout has passed.                                        *)
(***************************************************************************)
Workers == 1..NumThreads

\* The committed table after the holder's transaction commits.
committed(cache, deleted) ==
    [k \in DOMAIN cache |-> IF k \in deleted THEN "absent" ELSE cache[k]]

get_analytics_cache(thread, cache_key) ==
    IF u_lock \notin {None, thread}
    THEN /\ u_ret' = [op |-> "get", thread |-> thread, cache_key |-> cache_key, kind |-> "raised"]
         /\ UNCHANGED <<u_cache, u_lock, u_deleted>>
    ELSE LET deleted == u_deleted \cup {k \in Keys : u_cache[k] = "expired"}
         IN IF u_cache[cache_key] = "fresh" /\ cache_key \notin deleted
            THEN /\ u_cache' = committed(u_cache, deleted)
                 /\ u_lock' = None
                 /\ u_deleted' = {}
                 /\ u_ret' = [op |-> "get", thread |-> thread, cache_key |-> cache_key,
                              kind |-> "hit"]
            ELSE /\ u_cache' = u_cache
                 /\ u_lock' = thread
                 /\ u_deleted' = deleted
                 /\ u_ret' = [op |-> "get", thread |-> thread, cache_key |-> cache_key,
                              kind |-> "miss"]

set_analytics_cache(thread, cache_key) ==
    IF u_lock \notin {None, thread}
    THEN /\ u_ret' = [op |-> "set", thread |-> thread, cache_key |-> cache_key, kind |-> "failed"]
         /\ UNCHANGED <<u_cache, u_lock, u_deleted>>
    ELSE /\ u_cache' = [committed(u_cache, u_deleted) EXCEPT ![cache_key] = "fresh"]
         /\ u_lock' = None
         /\ u_deleted' = {}
         /\ u_ret' = [op |-> "set", thread |-> thread, cache_key |-> cache_key,
                      kind |-> "stored"]

\* Time passes expires_at of an entry.
entry_expires(cache_key) ==
    /\ u_cache[cache_key] = "fresh"
    /\ u_cache' = [u_cache EXCEPT ![cache_key] = "expired"]
    /\ u_ret' = NoCall
    /\ UNCHANGED <<u_lock, u_deleted>>

GetAnalyticsCache(thread, cache_key) ==
    get_analytics_cache(thread, cache_key) /\ UNCHANGED LockOthers

SetAnalyticsCache(thread, cache_key) ==
    set_analytics_cache(thread, cache_key) /\ UNCHANGED LockOthers

EntryExpires(cache_key) == entry_expires(cache_key) /\ UNCHANGED LockOthers

InitLock ==
    /\ u_cache = [k \in Keys |-> "absent"]
    /\ u_lock = None
    /\ u_deleted = {}
    /\ u_ret = NoCall
    /\ LockRest

NextLock ==
    \/ \E thread \in Workers, cache_key \in Keys : GetAnalyticsCache(thread, cache_key)
    \/ \E thread \in Workers, cache_key \in Keys : SetAnalyticsCache(thread, cache_key)
    \/ \E cache_key \in Keys : EntryExpires(cache_key)

SpecLock == InitLock /\ [][NextLock]_vars

(***************************************************************************)
(* The compliance checker as the command line builds it:                   *)
(* AdaptiveTestingConfig.to_orchestrator_config, then                      *)
(* ComplianceChecker(config["compliance_config"]) in the orchestrator's    *)
(* constructor, then check_file.  The configuration names categories by    *)
(* strings; members of the ComplianceCategory enum are written here by     *)
(* their values, and no string is equal to a member.                       *)
(***************************************************************************)
\* ComplianceConfig.enabled_categories: the names a configuration can list,
\* in the order of the enum's members.
CategoryNames ==
    <<"DATA_PRIVACY", "API_SECURITY", "FINANCIAL_REGULATIONS",
      "GRANTS_COMPLIANCE", "AUDIT_REQUIREMENTS">>

ConfiguredNames == {CategoryNames[i] : i \in 1..NumCategories}

to_orchestrator_config(enabled_categories) ==
    [compliance_config |-> [enabled_categories |-> enabled_categories]]

\* ComplianceChecker.__init__: set(config.get('enabled_categories', [the
\* five members])).
checker_enabled_categories(config) ==
    IF "enabled_categories" \in DOMAIN config
    THEN config.enabled_categories
    ELSE {ComplianceCategories[i] : i \in 1..Len(CategoryNames)}

\* AdaptiveTestingOrchestrator.__init__
ConfigConstruct ==
    /\ m_pc = "new"
    /\ m_enabled' = checker_enabled_categories(
                       to_orchestrator_config(m_config).compliance_config)
    /\ m_pc' = "constructed"
    /\ UNCHANGED <<m_config, m_found, m_report, ConfigOthers>>

\* compliance_checker.check_file(path) on a readable file.
ConfigCheckFile ==
    /\ m_pc = "constructed"
    /\ m_report' = check_file(TRUE, m_enabled, m_found)
    /\ m_pc' = "checked"
    /\ UNCHANGED <<m_config, m_found, m_enabled, ConfigOthers>>

InitConfig ==
    /\ m_pc = "new"
    /\ m_config \in SUBSET ConfiguredNames
    /\ m_found \in SeqsUpTo([category : CheckedCategories, level : ComplianceLevels],
                            MaxViolations)
    /\ m_enabled = {}
    /\ m_report = NoReport
    /\ ConfigRest

NextConfig == ConfigConstruct \/ ConfigCheckFile

SpecConfig == InitConfig /\ [][NextConfig]_vars

(***************************************************************************)
(* AuditTrailManager.get_quality_trends and export_audit_data.  The date   *)
(* of the call is given by its day of the month; a recorded metric by its  *)
(* age, the number of days between its timestamp and the day of the call.  *)
(***************************************************************************)
MonthDays == 1..31

\* The day windows asked for: short ones, the default and the export's.
Windows == (1..MaxWindow) \cup {default_days, export_days}

\* datetime.replace(day=...): ValueError unless the day is one of the month.
replace_day(day) ==
    IF day \in MonthDays
    THEN [raised |-> FALSE, day |-> day]
    ELSE [raised |-> TRUE, day |-> None]

\* The rows with timestamp >= since_date, when since_date lies days before
\* the day of the call.
metrics_since(ages, days) == {a \in ages : a <= days}

get_quality_trends(today, days, ages) ==
    LET since_day == replace_day(today - days)
    IN IF since_day.raised
       THEN [kind |-> "raised", rows |-> {}]
       ELSE [kind |-> "returned", rows |-> metrics_since(ages, today - since_day.day)]

\* export_audit_data(format="json"): the queries it awaits before writing.
export_audit_data(today, ages) ==
    [kind |-> get_quality_trends(today, export_days, ages).kind, rows |-> {}]

QualityTrends ==
    /\ q_ret' = [op |-> "get_quality_trends"] @@ get_quality_trends(q_today, q_days, q_ages)
    /\ UNCHANGED <<q_today, q_days, q_ages, TrendOthers>>

ExportAuditData ==
    /\ q_ret' = [op |-> "export_audit_data"] @@ export_audit_data(q_today, q_ages)
    /\ UNCHANGED <<q_today, q_days, q_ages, TrendOthers>>

InitTrends ==
    /\ q_today \in MonthDays
    /\ q_days \in Windows
    /\ q_ages \in SUBSET (0..MaxAge)
    /\ q_ret = NoCall
    /\ TrendRest

NextTrends == QualityTrends \/ ExportAuditData

SpecTrends == InitTrends /\ [][NextTrends]_vars

(***************************************************************************)
(* Properties of the cache.                                                *)
(***************************************************************************)
Entries(s) == {s[i] : i \in DOMAIN s}

C2_Capacity ==
    (h_pure /\ Len(h_ins) > max_size)
       => /\ \A i \in 1..(Len(h_ins) - max_size) : lookup(h_ins[i].key) = None
          /\ \A i \in (Len(h_ins) - max_size + 1)..Len(h_ins) :
                 lookup(h_ins[i].key) = h_ins[i].val

C2_Witness ==
    /\ h_pure
    /\ max_size = LruCapacity
    /\ Len(h_ins) = LruKeys
    /\ Len(store) = max_size

\* C3: when set inserts a new key into a full cache, exactly one entry goes
\* away, and it is the stored key whose most recent set or successful get
\* is the oldest; with two or more entries stored, the key touched last
\* (for instance by a successful get) stays.
C3_Victim ==
    CHOOSE k \in StoredKeys(store) :
       \A j \in DOMAIN h_touch :
          (h_touch[j] \in StoredKeys(store))
             => \E i \in 1..j : h_touch[i] = k

C3_EvictsLru ==
    [][\A k \in LruKeyRange :
         (LruSet(k) /\ k \notin StoredKeys(store)
            /\ max_size > 0 /\ Len(store) = max_size)
            => /\ StoredKeys(store') = (StoredKeys(store) \ {C3_Victim}) \cup {k}
               /\ (Len(store) >= 2 => h_touch[Len(h_touch)] \in StoredKeys(store'))]_vars

C3_Witness ==
    /\ max_size = LruCapacity
    /\ Len(store) = max_size
    /\ hits = 1
    /\ misses = 0
    /\ Len(h_touch) = max_size + 1
    /\ h_touch[1] \notin StoredKeys(store)
    /\ \A j \in 2..Len(h_touch) : h_touch[j] \in StoredKeys(store)

\* C4: the number of stored entries never exceeds max_size; with
\* max_size = 0 the cache stays empty and every get returns absent.
C4_SizeBound ==
    /\ Len(store) <= max_size
    /\ Cardinality(StoredKeys(store)) = Len(store)
    /\ (max_size = 0 => /\ store = <<>>
                        /\ \A k \in Keys : lookup(k) = None
                        /\ (lastOp.op = "get" => lastOp.val = None))

C4_Witness ==
    /\ max_size = MaxCapacity
    /\ Len(store) = max_size
    /\ lastOp.op = "set"
    /\ lastOp.key \in StoredKeys(store)
    /\ lastOp.key # store[1].key \/ max_size = 1
    /\ hits > 0

\* C5: every get call so far incremented exactly one of hits (a value was
\* returned) and misses (absent); total_requests = hits + misses; size is
\* the number of stored entries; hit_rate = hits / (hits + misses), 0 when
\* no get has been made.
C5_Stats ==
    /\ get_stats.hits = h_hits
    /\ get_stats.misses = h_gets - h_hits
    /\ get_stats.total_requests = h_gets
    /\ get_stats.size = Cardinality(StoredKeys(store))
    /\ get_stats.hit_rate = IF h_gets = 0 THEN 0 ELSE (h_hits * 100) \div h_gets
    /\ (lastOp.op = "get_stats" => lastOp.val = get_stats.hit_rate)

C5_Witness ==
    /\ lastOp.op = "get_stats"
    /\ lastOp.val = 50
    /\ h_gets = 2
    /\ h_hits = 1
    /\ Len(store) = 1

\* C6: threads that set and get keys of their own on one cache whose
\* capacity is not exceeded: a get that follows the set of the same key in
\* the same thread returns the value set; a concurrent get by another
\* thread returns that value or absent; once all threads have finished,
\* every key written returns its written value.
C6_Concurrent ==
    /\ \A t \in DOMAIN t_pc :
          (t_pc[t] > 0 /\ t_pc[t] % 2 = 0)
             => t_ret[t] = KeyVal(ThreadKey(t, t_pc[t] \div 2))
    /\ t_reads.n > 0 => t_reads.val \in {None, KeyVal(t_reads.key)}
    /\ (t_pc # <<>> /\ \A t \in DOMAIN t_pc : t_pc[t] = 2 * OpsPerThread)
          => \A k \in WrittenKeys : lookup(k) = KeyVal(k)

C6_Witness ==
    /\ t_pc # <<>>
    /\ \A t \in DOMAIN t_pc : t_pc[t] = 2 * OpsPerThread
    /\ Len(store) = max_size
    /\ t_reads.n = MaxReads
    /\ t_reads.absent
    /\ t_reads.val # None
    /\ \A t \in DOMAIN t_pc : t_ret[t] # None

\* C7: the key depends only on the operation name and the set of keyword
\* name/value pairs: two calls get the same key exactly when they have the
\* same operation and the same pairs, in whatever order they were written.
KwSet(kw) == {kw[i] : i \in DOMAIN kw}

C7_KeyDeterminism ==
    k_keys # <<>>
       => ((k_keys[1] = k_keys[2])
             <=> (/\ k_calls[1].op = k_calls[2].op
                  /\ KwSet(k_calls[1].kwargs) = KwSet(k_calls[2].kwargs)))

C7_Witness ==
    /\ k_keys # <<>>
    /\ k_keys[1] = k_keys[2]
    /\ Len(k_calls[1].kwargs) = 2
    /\ k_calls[1].kwargs # k_calls[2].kwargs

\* C8: an invocation made while a digest for the same arguments is still
\* cached returns exactly that digest, which an earlier invocation with the
\* same arguments rendered and returned, and makes no call to the API
\* client: the call count is the number of invocations that found nothing
\* cached.
C8_CachedInvocation ==
    /\ \A t \in DOMAIN tk_pc :
          (tk_pc[t] # "idle" /\ tk_cached[t] # None)
             => /\ tk_pc[t] = "done"
                /\ tk_out[t] = [kind |-> "text", digest |-> tk_cached[t], msg |-> ""]
                /\ \E u \in DOMAIN tk_pc :
                      /\ u # t
                      /\ tk_pc[u] = "done"
                      /\ tk_query[u] = tk_query[t]
                      /\ tk_cached[u] = None
                      /\ tk_out[u] = tk_out[t]
    /\ api_calls = Cardinality({t \in DOMAIN tk_pc :
                                   tk_pc[t] # "idle" /\ tk_cached[t] = None})

C8_Witness ==
    /\ api_calls = 1
    /\ \A t \in DOMAIN tk_pc : tk_pc[t] = "done"
    /\ tk_cached[1] = None
    /\ tk_cached[2] # None
    /\ tk_out[1] = tk_out[2]
    /\ tk_out[1].kind = "text"

Failures(h) == {i \in DOMAIN h : h[i] # "ok"}

C10_RetryThenSucceed ==
    /\ ((\A i \in DOMAIN r_hist : r_hist[i] \in {"APIError", "Exception"})
          /\ Len(r_hist) < r_max)
          => r_pc \in {"call", "sleep"}
    /\ (r_hist # <<>> /\ r_hist[Len(r_hist)] = "ok")
          => /\ r_pc = "returned"
             /\ r_result = "value"
             /\ Len(r_hist) = Cardinality(Failures(r_hist)) + 1
             /\ Len(r_slept) = Cardinality(Failures(r_hist))
    /\ r_pc = "returned" => (r_hist # <<>> /\ r_hist[Len(r_hist)] = "ok")

C10_Witness ==
    /\ r_pc = "returned"
    /\ r_result = "value"
    /\ r_max = MaxRetries
    /\ r_hist = <<"APIError", "Exception", "ok">>
    /\ Len(r_slept) = 2

\* C11: if every invocation of the wrapped function fails with an error
\* that is not a validation error, the decorated call ends, it ends by
\* raising the last of those errors, and at that point the function has
\* been invoked exactly max_retries + 1 times: it does not give up after
\* fewer invocations and never makes more.
NonValidation(h) == \A i \in DOMAIN h : h[i] \in {"APIError", "Exception"}

C11_AlwaysFails ==
    /\ [](Len(r_hist) <= r_max + 1)
    /\ []((NonValidation(r_hist) /\ Len(r_hist) < r_max + 1)
             => r_pc \in {"call", "sleep"})
    /\ []((NonValidation(r_hist) /\ r_hist # <<>> /\ Len(r_hist) = r_max + 1)
             => (r_pc = "raised" /\ r_result = r_hist[Len(r_hist)]))
    /\ [](NonValidation(r_hist) /\ r_max >= 0)
             => <>(r_pc = "raised" /\ Len(r_hist) = r_max + 1)

C11_Witness ==
    /\ r_max = MaxRetries
    /\ r_pc = "raised"
    /\ NonValidation(r_hist)
    /\ Len(r_hist) = MaxRetries + 1
    /\ Len(r_slept) = MaxRetries
    /\ r_result = "APIError"

PhaseRank(p) == CHOOSE i \in DOMAIN TestingPhase : TestingPhase[i] = p

C13_PhaseOrder ==
    [][(o_phase # "none" /\ o_phase' # "none" /\ o_phase' # o_phase)
          => PhaseRank(o_phase') = PhaseRank(o_phase) + 1]_vars

\* C14: an error raised in a monitoring cycle never ends the loop; the sleep
\* that follows a cycle is 60 seconds when the cycle raised (an error of
\* change detection, of session start, or of the audit logging in the
\* cycle's own handler) and the configured interval after every other
\* cycle, a cycle whose pipeline error was handled inside it included.
C14_LoopSurvives ==
    /\ o_pc # "terminated"
    /\ o_pc = "sleep"
          => o_sleep = IF o_err \in {"detect", "start_session", "log_error"}
                       THEN 60 ELSE o_interval
    /\ o_err # "none" => o_pc \in {"sleep", "log_error"}

C14_Witness ==
    /\ o_pc = "sleep"
    /\ o_cycles = 1
    /\ o_err = "detect"
    /\ o_sleep = 60
    /\ o_interval = 30

\* C15: when a cycle in which an error was raised is over, an error event
\* for it is in the audit trail.
C15_ErrorsAudited ==
    (o_pc = "sleep" /\ o_err # "none") => o_logged

\* C16: for a file that cannot be read, both analyzers return a report
\* instead of raising: the risk assessment has level medium and exactly one
\* finding, the one describing the failed analysis; the compliance report is
\* not compliant, has score 0.0 and exactly one violation, of high severity.
C16_UnreadableFile ==
    /\ (a_pc \in {"compliance", "done"} /\ ~a_readable)
          => /\ a_risk.kind = "risk"
             /\ a_risk.level = "medium"
             /\ Len(a_risk.findings) = 1
             /\ a_risk.findings[1].kind = "analysis_error"
    /\ (a_pc = "done" /\ ~a_readable)
          => /\ a_report.kind = "compliance"
             /\ ~a_report.is_compliant
             /\ a_report.overall_score = 0
             /\ Len(a_report.violations) = 1
             /\ a_report.violations[1].level = "high"

C16_Witness ==
    /\ a_pc = "done"
    /\ ~a_readable
    /\ a_security = <<"hardcoded_secret">>
    /\ a_risk.level = "medium"
    /\ a_report.overall_score = 0

\* The score the claims speak of, in hundredths: 1.0 minus the summed
\* penalties critical 0.4, high 0.2, medium 0.1, low 0.05, info 0.01, never
\* below 0.0.
ClaimedScore(violations) ==
    LET penalty(v) == CASE v.level = "critical" -> 40
                        [] v.level = "high" -> 20
                        [] v.level = "medium" -> 10
                        [] v.level = "low" -> 5
                        [] v.level = "info" -> 1
        total == SumSeq([i \in DOMAIN violations |-> penalty(violations[i])])
    IN IF total >= 100 THEN 0 ELSE 100 - total

HasCritical(violations) ==
    \E i \in DOMAIN violations : violations[i].level = "critical"

InCategory(violations, c) == SelectSeq(violations, LAMBDA v : v.category = c)

\* C18 as stated: each category's flag is true exactly when the score of
\* that category's violations alone is at least 0.8 and the category has no
\* critical violation.
C18_CategoryVerdict ==
    (a_pc = "done" /\ a_readable)
       => \A c \in DOMAIN a_report.compliance_summary :
             a_report.compliance_summary[c]
                <=> (ClaimedScore(InCategory(a_report.violations, c)) >= 80
                     /\ ~HasCritical(InCategory(a_report.violations, c)))

\* C18, amended: the flags are given for exactly the checked categories, and
\* a category's flag is true exactly when the category has no critical
\* violation, whatever the score of its violations.
C18_CategoryNoCritical ==
    (a_pc = "done" /\ a_readable)
       => /\ DOMAIN a_report.compliance_summary
                = {a_report.categories_checked[i] :
                      i \in DOMAIN a_report.categories_checked}
          /\ \A c \in DOMAIN a_report.compliance_summary :
                a_report.compliance_summary[c]
                   <=> ~HasCritical(InCategory(a_report.violations, c))

C18_Witness ==
    /\ a_pc = "done"
    /\ a_readable
    /\ \E c \in DOMAIN a_report.compliance_summary :
          /\ a_report.compliance_summary[c]
          /\ ClaimedScore(InCategory(a_report.violations, c)) < 80
          /\ Len(InCategory(a_report.violations, c)) = MaxViolations

\* C19: a file in which the detectors find three hardcoded secrets and
\* nothing else, of the lowest complexity, is assessed high or critical; a
\* file in which they find nothing is assessed low.
C19_RiskLevels ==
    (a_pc \in {"compliance", "done"} /\ a_readable
       /\ a_business = <<>> /\ a_complexity_findings = <<>>
       /\ a_complexity = base_complexity)
       => /\ a_security = <<"hardcoded_secret", "hardcoded_secret", "hardcoded_secret">>
                => a_risk.level \in {"high", "critical"}
          /\ a_security = <<>> => a_risk.level = "low"

\* A record of the history that is the record of session s as logged: the
\* same session id, the count of its generated tests, the mean of its risk
\* scores.
RecordOf(rec, session) ==
    /\ rec.session_id = session.session_id
    /\ rec.tests_generated = Len(session.generated_tests)
    /\ IF session.risk_scores = <<>>
       THEN rec.overall_risk_score.n = 0
       ELSE rec.overall_risk_score.n * Len(session.risk_scores)
               = SumSeq(session.risk_scores) * rec.overall_risk_score.d

\* C20 as stated: get_session_history, called after log_session(s) with s
\* the most recently logged session, returns a record of s.
C20_RoundTrip ==
    d_pc = "got" => \E i \in DOMAIN d_history : RecordOf(d_history[i], d_last)

\* C20, amended: it does so when s is also the session with the latest
\* start time of those logged, and the record is then the first returned.
C20_RoundTripLatestStart ==
    (d_pc = "got"
       /\ \A r \in StoredRows :
             r.session_id # d_last.session_id => r.start_time < d_last.start_time)
       => (d_history # <<>> /\ RecordOf(d_history[1], d_last))

C20_Witness ==
    /\ d_pc = "got"
    /\ d_limit = 1
    /\ Cardinality(StoredRows) = NumSessions
    /\ d_events = MaxLogs
    /\ Len(d_last.generated_tests) = 1
    /\ d_last.start_time = MaxStart
    /\ \A r \in StoredRows :
          r.session_id # d_last.session_id => r.start_time < d_last.start_time
    /\ RecordOf(d_history[1], d_last)

\* C21: a log_event call whose database write went through returns the
\* event id, with the event in audit_events, whether or not the append to
\* the backup file failed; when the append went through the event id is
\* the last line of the backup file; and no stored event is ever removed.
C21_BackupBestEffort ==
    /\ []((e_ret.op = "log_event" /\ e_ret.store = "ok")
            => /\ e_ret.kind = "returned"
               /\ e_ret.event_id = e_calls
               /\ \E i \in DOMAIN e_events : e_events[i].event_id = e_ret.event_id
               /\ e_ret.append = "ok"
                     => (e_backup # <<>> /\ e_backup[Len(e_backup)] = e_ret.event_id))
    /\ [][\A i \in DOMAIN e_events : i \in DOMAIN e_events' /\ e_events'[i] = e_events[i]]_vars

C21_Witness ==
    /\ e_ret.op = "log_event"
    /\ e_ret.kind = "returned"
    /\ e_ret.append = "raise"
    /\ Len(e_events) = 2
    /\ Len(e_backup) = 1
    /\ e_events[2].event_id = e_ret.event_id

\* C22 as stated: once the constructor has returned, no operation fails for
\* want of its tables.
C22_TablesReady ==
    (e_pc = "constructed" /\ e_ret.op # "none" /\ e_ret.kind = "raised")
        => e_ret.error # "no such table"

\* C23: the store holds at most one row per (opportunity id, calculation
\* version) pair, a row that is there carries the score of the latest
\* successful store for the pair, and right after a successful store the
\* row of its pair is there.
C23_OneRowPerPair ==
    /\ \A p \in ScorePairs :
          /\ Len(s_db.grant_scores[p]) <= 1
          /\ Len(s_db.grant_scores[p]) = 1
                => s_db.grant_scores[p][1].overall_score = s_latest[p]
    /\ (s_ret.op = "store_grant_score" /\ ~s_ret.failed)
          => \E p \in ScorePairs : Len(s_db.grant_scores[p]) = 1

C23_Witness ==
    /\ s_ops = MaxStoreOps
    /\ s_ret.op = "store_grant_score"
    /\ ~s_ret.failed
    /\ \E p \in ScorePairs :
          /\ Len(s_db.grant_scores[p]) = 1
          /\ s_db.grant_scores[p][1].overall_score = NumScores
          /\ s_db.grant_scores[p][1].calculated_at = MaxClock
          /\ \A q \in ScorePairs \ {p} : s_db.grant_scores[q] # <<>>

\* C24 as stated: a write operation that fails leaves the committed content
\* as it was, leaves no uncommitted change behind, and returns its failure
\* instead of raising.
C24_FailedWriteRollsBack ==
    [][(s_ops' = s_ops + 1 /\ s_ret'.failed)
          => /\ s_db' = s_db
             /\ s_work' = s_db'
             /\ s_ret'.kind = "returned"]_vars

\* C25 as stated: in both run variants, when the server has stopped, closing
\* the API client was attempted and the caller gets the return, error or
\* interrupt that stopped the server, whatever the close did.
C25_CloseBestEffort ==
    (g_pc = "done" /\ g_server)
        => /\ g_close \in {"closed", "failed", "scheduled"}
           /\ g_out = g_reason

\* C26: main exits non-zero without having constructed the server when
\* neither key variable is set, exits 0 when interrupted, and exits 1 on
\* any other failure.
C26_ExitCodes ==
    (g_entry = "main" /\ g_pc = "done")
        => /\ ~(g_env.API_KEY \/ g_env.SIMPLER_GRANTS_API_KEY)
                 => (g_exit # 0 /\ g_exit # -1 /\ ~g_server /\ g_reason = "no_key")
           /\ g_reason = "interrupt" => g_exit = 0
           /\ g_reason = "error" => g_exit = 1
           /\ (g_env.CACHE_TTL \in {"zero", "not a number"}
                 /\ (g_env.API_KEY \/ g_env.SIMPLER_GRANTS_API_KEY)
                 /\ g_reason # "interrupt") => g_exit = 1

C26_Witness ==
    /\ g_entry = "main"
    /\ g_pc = "done"
    /\ g_server
    /\ g_reason = "interrupt"
    /\ g_env.SIMPLER_GRANTS_API_KEY
    /\ ~g_env.API_KEY
    /\ g_close = "not attempted"
    /\ g_exit = 0

\* The positions of data whose record is complete.
WellFormed == {i \in DOMAIN p_data : RequiredFields \subseteq p_data[i].fields}

\* C27: get_opportunities returns and does not raise; what it returns is
\* the complete records of data, each exactly once and in input order, and
\* nothing else; one complete and one incomplete record give one record.
C27_SkipsMalformed ==
    p_pc = "done"
       => /\ p_out.kind = "returned"
          /\ Len(p_out.opportunities) = Cardinality(WellFormed)
          /\ \A i \in WellFormed :
                p_out.opportunities[Cardinality({j \in WellFormed : j <= i})].opportunity_id
                   = p_data[i].id
          /\ (Len(p_data) = 2 /\ Cardinality(WellFormed) = 1)
                => Len(p_out.opportunities) = 1

C27_Witness ==
    /\ p_pc = "done"
    /\ Len(p_data) = MaxRecords
    /\ Cardinality(WellFormed) = 1
    /\ 1 \notin WellFormed
    /\ Len(p_out.opportunities) = 1
    /\ p_out.opportunities[1].opportunity_id = NumRecordIds

\* The positions of message s that belong to the value following the key at
\* position i: after the key and any whitespace, the symbols up to the next
\* whitespace or ampersand.
ValueOf(s, i) ==
    LET start == i + LeadingSpaces(Drop(s, i))
    IN (start + 1)..(start + LeadingValue(Drop(s, start)))

\* The ordinary characters of s that are part of no value.
PlainOutsideValues(s) ==
    {j \in DOMAIN s :
        /\ s[j].kind = "char"
        /\ \A i \in DOMAIN s : s[i].kind = "key" => j \notin ValueOf(s, i)}

\* C28 as stated: the output holds no part of a value that follows a key;
\* every ordinary character left in the output is one that stood outside
\* all values.
C28_NoValueLeft ==
    x_pc = "done"
       => Cardinality({j \in DOMAIN x_out : x_out[j].kind = "char"})
             <= Cardinality(PlainOutsideValues(x_text))

\* The names listed in all_errors.
Listed == {v_all_errors[i] : i \in DOMAIN v_all_errors}

\* C29 as stated: when main has ended every check was run; a check is
\* listed with an error exactly when it did not pass and printed its
\* 'passed' line only when it did; the exit code is 0 exactly when every
\* check passed; a missing environment template fails its check and makes
\* the exit code non-zero.
C29_EveryCheckReported ==
    v_exit # -1
       => /\ Len(v_outcome) = Len(validators)
          /\ \A i \in DOMAIN validators :
                /\ (validators[i].name \in Listed) <=> (v_outcome[i] # "ok")
                /\ (i \in v_printed) => (v_outcome[i] = "ok")
          /\ (v_exit = 0) <=> (\A i \in DOMAIN validators : v_outcome[i] = "ok")
          /\ v_outcome[Len(validators)] = "missing"
                => (validators[Len(validators)].name \in Listed /\ v_exit # 0)

\* The last-known hash of a path before the latest scan, None when the
\* path was not monitored.
KnownBefore(path) ==
    IF \E i \in DOMAIN f_result.before : f_result.before[i].path = path
    THEN f_result.before[CHOOSE i \in DOMAIN f_result.before :
                            f_result.before[i].path = path].hash
    ELSE None

\* The kind of change of a path between the previous scan and this one.
ExpectedChange(path) ==
    IF KnownBefore(path) # None /\ f_disk[path] = None THEN "deleted"
    ELSE IF KnownBefore(path) = None /\ f_disk[path] # None THEN "added"
    ELSE IF KnownBefore(path) # f_disk[path] THEN "modified"
    ELSE "none"

\* C30 as stated: a scan returns and does not raise, and its events are one
\* per changed file, of the right kind, a deleted file tagged "cleanup".
C30_ScanReportsChanges ==
    f_pc = "scanned"
       => /\ f_result.kind = "returned"
          /\ \A p \in Files :
                IF ExpectedChange(p) = "none"
                THEN \A i \in DOMAIN f_result.events : f_result.events[i].file_path # p
                ELSE /\ Cardinality({i \in DOMAIN f_result.events :
                                        f_result.events[i].file_path = p}) = 1
                     /\ \E i \in DOMAIN f_result.events :
                           /\ f_result.events[i].file_path = p
                           /\ f_result.events[i].change_type = ExpectedChange(p)
                           /\ ExpectedChange(p) = "deleted"
                                 => f_result.events[i].test_requirements = <<"cleanup">>

(***************************************************************************)
(* Properties of the generation and execution phases.                      *)
(***************************************************************************)
\* The paths returned by the calls that succeeded, in call order.
RECURSIVE ReturnedPaths(_)
ReturnedPaths(calls) ==
    IF calls = <<>> THEN <<>>
    ELSE LET last == calls[Len(calls)]
         IN ReturnedPaths(SubSeq(calls, 1, Len(calls) - 1))
               \o (IF last.outcome = "ok" THEN last.files ELSE <<>>)

\* The requests the phase builds from the session's changes.
BuiltRequests ==
    LET requests == test_requests(w_changes, Len(w_changes))
    IN {requests[i] : i \in DOMAIN requests}

\* C31: the generator is invoked in descending priority order; a failed
\* request does not end the phase, so that once the phase is over every
\* request has been invoked once; the session's generated tests are the
\* paths returned by the requests that succeeded.
C31_GenerationSkipsFailures ==
    /\ \A i, j \in DOMAIN w_calls :
          i < j => w_calls[i].request.priority >= w_calls[j].request.priority
    /\ \A i, j \in DOMAIN w_calls : w_calls[i].request = w_calls[j].request => i = j
    /\ w_run = "none" => w_pc # "raised"
    /\ w_pc \notin {"idle", "generation"}
          => {w_calls[i].request : i \in DOMAIN w_calls} = BuiltRequests
    /\ w_generated = ReturnedPaths(w_calls)

\* The phase is over; the requests were built in ascending priority, an
\* earlier call raised and a later one returned a path.
C31_Witness ==
    /\ w_pc = "execution"
    /\ \E i, j \in DOMAIN w_changes :
          /\ i < j
          /\ calculate_test_priority(w_changes[i].risk, w_changes[i].complexity_score)
                < calculate_test_priority(w_changes[j].risk, w_changes[j].complexity_score)
    /\ \E i, j \in DOMAIN w_calls :
          /\ i < j
          /\ w_calls[i].outcome = "raise"
          /\ w_calls[j].outcome = "ok"
          /\ w_calls[j].files # <<>>
    /\ w_generated # <<>>

\* The results a run that completed leaves on the session, with or
\* without the mark of the optimization phase.
CompletedResults ==
    LET plain == {completed_result(rc, n) : rc \in ReturnCodes, n \in 1..(3 * MaxChanges)}
    IN plain \cup {[f \in DOMAIN r \cup {"junit_parsed"} |->
                       IF f = "junit_parsed" THEN TRUE ELSE r[f]] : r \in plain}

\* C32: a timeout of the test runner does not raise; the phase records a
\* result no completed run can leave, and the pipeline goes on to the
\* optimization phase.
C32_TimeoutRecorded ==
    [][(w_pc = "execution" /\ w_run' = "timeout")
          => /\ w_pc' = "optimization"
             /\ w_results' \notin CompletedResults
             /\ w_results'.test_count = Len(w_generated)]_vars

\* The runner timed out and the pipeline has finished.
C32_Witness ==
    /\ w_run = "timeout"
    /\ w_pc = "done"
    /\ w_results.return_code = -1

(***************************************************************************)
(* Properties of the event ids.                                            *)
(***************************************************************************)
\* C33 as stated: every log_event call is given an id that no earlier call
\* was given, and no insert is rejected because its id is already there.
C33_UniqueEventIds ==
    /\ \A i, j \in DOMAIN i_calls :
          i # j => i_calls[i].event_id # i_calls[j].event_id
    /\ \A i \in DOMAIN i_calls : i_calls[i].outcome # "raised"

(***************************************************************************)
(* Properties of the monitoring cycle's sessions.                          *)
(***************************************************************************)
\* C34: between cycles no session is current, however the cycle ended, and
\* get_status reports none; a session is current only while its pipeline
\* and the audit logging of its cycle run.
C34_NoSessionBetweenCycles ==
    /\ c_pc \in {"detect", "sleep"}
          => /\ c_current = None
             /\ ~get_status.monitoring_active
             /\ get_status.current_session = None
    /\ get_status.monitoring_active
          => /\ c_pc \in {"pipeline", "log_session", "log_error"}
             /\ c_current = c_cycles

\* Cycles have ended in each of the three ways: completed, failed with the
\* error logged, and failed with the audit logging failing too.
C34_Witness ==
    /\ c_pc = "sleep"
    /\ c_current = None
    /\ c_outcome = "error_lost"
    /\ c_history # <<>>
    /\ c_errors # {}

\* C35 as stated: after every cycle the sessions in session_history are
\* those log_session persisted, and no session whose cycle was recorded as
\* an error is among them.
C35_HistoryMatchesAudit ==
    c_pc = "sleep"
       => /\ {c_history[i] : i \in DOMAIN c_history} = c_table
          /\ \A i \in DOMAIN c_history : c_history[i] \notin c_errors
          /\ get_status.sessions_completed = Cardinality(c_table)

(***************************************************************************)
(* Properties of the scans of successive cycles.                           *)
(***************************************************************************)
\* C36 as stated: the first scan after a file changed reports the change,
\* once, to the session it starts, and a file that did not change since
\* the scan before is not reported.
C36_EachChangeDeliveredOnce ==
    n_scan # NoCall
       => /\ n_scan.kind = "returned"
          /\ n_session = n_scan.events
          /\ \A p \in Files :
                Cardinality({i \in DOMAIN n_session : n_session[i].file_path = p})
                   = IF p \in n_scan.pending THEN 1 ELSE 0

(***************************************************************************)
(* Properties of the analytics cache's connections.                        *)
(***************************************************************************)
\* C37 as stated: after a get_analytics_cache call that found no unexpired
\* entry, the calling thread's connection holds no open transaction, and
\* no write of a worker thread fails because of one.
C37_MissLeavesNoTransaction ==
    /\ (u_ret.op = "get" /\ u_ret.kind = "miss") => u_lock # u_ret.thread
    /\ u_ret.op = "set" => u_ret.kind = "stored"

(***************************************************************************)
(* Properties of the configured compliance checker.                        *)
(***************************************************************************)
\* The enum member a configured name stands for.
MemberNamed(name) ==
    ComplianceCategories[CHOOSE i \in DOMAIN CategoryNames : CategoryNames[i] = name]

\* C38 as stated: every category the configuration lists as enabled is
\* evaluated on the checked file, and each violation the file has in such
\* a category is in the report.
C38_EnabledCategoriesChecked ==
    m_pc = "checked"
       => \A name \in m_config :
             /\ \E i \in DOMAIN m_report.categories_checked :
                   m_report.categories_checked[i] = MemberNamed(name)
             /\ \A i \in DOMAIN m_found :
                   m_found[i].category = MemberNamed(name)
                      => \E j \in DOMAIN m_report.violations :
                            m_report.violations[j] = m_found[i]

(***************************************************************************)
(* Properties of the quality trends.                                       *)
(***************************************************************************)
\* C39 as stated: get_quality_trends(days) returns the metrics recorded in
\* the last days days, whatever the day of the call and the positive days,
\* and export_audit_data completes.
C39_TrendsReturn ==
    /\ q_ret.op = "get_quality_trends"
          => /\ q_ret.kind = "returned"
             /\ q_ret.rows = {a \in q_ages : a <= q_days}
    /\ q_ret.op = "export_audit_data" => q_ret.kind = "returned"

====
